---- MODULE Spec2Model ----
(***************************************************************************)
(* A model of the vector search engine: the HNSW index                     *)
(* (src/src/index/hnsw.rs), the write-ahead log (src/src/wal.rs) and the   *)
(* backend node that glues them (src/src/bin/server.rs).                   *)
(*                                                                         *)
(* Conventions.  Rust vectors are TLA+ sequences, so every index is one    *)
(* more than in the source.  A std BinaryHeap is the sequence of its       *)
(* backing Vec, and its operations are the sift procedures of the standard *)
(* library, so that the order among candidates of equal distance is the    *)
(* order the program produces.                                             *)
(***************************************************************************)
EXTENDS Integers, Sequences, FiniteSets, TLC

VARIABLES
    nodes,        \* Hnsw.nodes: id -> [vector, layers]
    entry_point,  \* Hnsw.entry_point, None or an id
    max_layers,   \* Hnsw.max_layers
    panicked,     \* TRUE once an insert has panicked
    drawn,        \* history: id -> the level random_level drew for it
    results,      \* the last search: [query, k, out], or NoSearch
    wal_file,     \* the bytes of the log file on disk
    wal_open,     \* TRUE while a Wal value (a handle on the file) is alive
    wal_session,  \* history: the number of Wal::new calls so far
    appended,     \* history: the records append returned Ok for, [entry, session]
    torn,         \* history: the bytes of a record cut short at the end of the file
    read_result,  \* the last read_all: [ok, entries, err], or NoRead
    server_up,    \* TRUE while the backend process runs
    pc,           \* the place of each handler of the backend in put
    req,          \* the request each handler works on: [id, vector]
    replies,      \* the last reply each handler sent
    snapshot_file,\* the snapshot on disk, or NoFile
    acked,        \* history: the [id, vector] of every put that replied success
    applied,      \* history: [id, wal_len] of every index.insert of a handler
    crashes,      \* history: the number of crashes of the backend so far
    ring,         \* the router's ring: its entries [hash, addr], by ascending hash
    serving,      \* TRUE once the Router is built and serves requests
    replication_factor,
    write_quorum,
    up,           \* the backends that accept connections
    router,       \* the locals of the router's handler, and the place it is at
    router_reply, \* the last reply of the router
    index_lock,   \* the RwLock of the index: [writer, readers]
    srch,         \* per handler, its search: the request and what it read
    versions,     \* history: the graphs the index held between two inserts
    wal_lock      \* the Mutex of the log: the handler that holds it, or 0

idxVars == <<nodes, entry_point, max_layers, panicked, drawn, results>>

walVars == <<wal_file, wal_open, wal_session, appended, torn, read_result>>

srvVars == <<server_up, pc, req, replies, snapshot_file, acked, applied, crashes>>

rtrVars == <<ring, serving, replication_factor, write_quorum, up, router,
             router_reply>>

concVars == <<index_lock, srch, versions, wal_lock>>

vars == <<nodes, entry_point, max_layers, panicked, drawn, results,
          wal_file, wal_open, wal_session, appended, torn, read_result,
          server_up, pc, req, replies, snapshot_file, acked, applied, crashes,
          ring, serving, replication_factor, write_quorum, up, router,
          router_reply, index_lock, srch, versions, wal_lock>>

\* ------------------------------------------------------------------------
\* Bounds of the model and parameters of the index
\* ------------------------------------------------------------------------

\* The largest number of nodes an index grows to.
MaxNodes == 4

\* Hnsw::new(m, ef_construction): the target degree and the build width.  The
\* server constructs Hnsw::new(16, 100); the constructor takes any values, and
\* the model takes small ones so that pruning happens within MaxNodes inserts.
M == 2

EfConstruction == 2

\* m_max0 = m * 2
MMax0 == M * 2

\* The levels random_level may draw (any usize in the source).
Levels == {0, 1}

\* The vectors handed to insert and search: points of the line, as
\* one-element arrays.
Points == {<<0>>, <<1>>, <<3>>}

\* The largest number of nodes of an index of points of the plane (PlaneSpec).
PlaneNodes == 6

\* The points of the plane handed to insert and search in PlaneSpec.
PlanePoints == {<<0, 0>>, <<0, 2>>, <<-6, 1>>, <<0, -6>>, <<0, 8>>, <<10, 0>>}

\* The ids handed to insert.
Ids == 1..(MaxNodes + PlaneNodes)

\* Option<u32>::None, a value that is no u32.
None == -1

\* ------------------------------------------------------------------------
\* distance.rs
\* ------------------------------------------------------------------------

RECURSIVE SumSq(_, _, _)
SumSq(a, b, i) ==
    IF i > Len(a) THEN 0
    ELSE (a[i] - b[i]) * (a[i] - b[i]) + SumSq(a, b, i + 1)

\* The integer square root, by bisection on lo..hi.
RECURSIVE ISqrt(_, _, _)
ISqrt(n, lo, hi) ==
    IF lo >= hi THEN lo
    ELSE LET mid == (lo + hi + 1) \div 2
         IN  IF mid * mid <= n THEN ISqrt(n, mid, hi) ELSE ISqrt(n, lo, mid - 1)

\* euclidean_distance(a, b) = sqrt((a - b) . (a - b)), an f32.  The model
\* keeps a distance in thousandths, truncated: on sums of squares up to 2147
\* (beyond, the integers of the checker overflow) sqrt and its truncation to
\* thousandths are strictly increasing, as the f32 square root is, so two
\* distances compare as they do in the program, and a distance is 0 exactly
\* when the vectors are equal.
euclidean_distance(a, b) ==
    LET s  == SumSq(a, b, 1)
        hi == IF (s + 1) * 1000 < 46340 THEN (s + 1) * 1000 ELSE 46340
    IN  ISqrt(s * 1000 * 1000, 0, hi)

\* ------------------------------------------------------------------------
\* Candidate and std::collections::BinaryHeap
\* ------------------------------------------------------------------------

Candidate(i, d) == [id |-> i, distance |-> d]

\* PartialOrd for Candidate compares the distance alone; `rev` is TRUE for a
\* heap of Reverse(Candidate), whose order is the opposite one.
CandLe(rev, a, b) ==
    IF rev THEN b.distance <= a.distance ELSE a.distance <= b.distance

\* BinaryHeap::sift_up(start, pos), the hole holding element e.
RECURSIVE SiftUp(_, _, _, _, _)
SiftUp(rev, h, e, start, pos) ==
    IF pos > start /\ ~CandLe(rev, e, h[pos \div 2])
    THEN SiftUp(rev, [h EXCEPT ![pos] = h[pos \div 2]], e, start, pos \div 2)
    ELSE [h EXCEPT ![pos] = e]

\* BinaryHeap::push
HeapPush(rev, h, x) == SiftUp(rev, Append(h, x), x, 1, Len(h) + 1)

\* BinaryHeap::sift_down_to_bottom(0): the hole goes down along the greater
\* children to a leaf, then the element sifts up from there.
RECURSIVE SiftDownToBottom(_, _, _, _)
SiftDownToBottom(rev, h, e, pos) ==
    LET child == 2 * pos
    IN  IF child + 1 <= Len(h)
        THEN LET c == IF CandLe(rev, h[child], h[child + 1]) THEN child + 1 ELSE child
             IN  SiftDownToBottom(rev, [h EXCEPT ![pos] = h[c]], e, c)
        ELSE IF child = Len(h)
        THEN SiftUp(rev, [h EXCEPT ![pos] = h[child]], e, 1, child)
        ELSE SiftUp(rev, h, e, 1, pos)

\* BinaryHeap::pop: the heap that is left (the popped item is the old root).
HeapPop(rev, h) ==
    IF Len(h) <= 1 THEN <<>>
    ELSE LET last == h[Len(h)]
             rest == SubSeq(h, 1, Len(h) - 1)
         IN  SiftDownToBottom(rev, rest, last, 1)

\* BinaryHeap::peek
HeapPeek(h) == h[1]

\* BinaryHeap::sift_down_range(pos, end) on the first `end` elements.
RECURSIVE SiftDownRange(_, _, _, _, _)
SiftDownRange(rev, h, e, pos, end) ==
    LET child == 2 * pos
    IN  IF child + 1 <= end
        THEN LET c == IF CandLe(rev, h[child], h[child + 1]) THEN child + 1 ELSE child
             IN  IF CandLe(rev, h[c], e)
                 THEN [h EXCEPT ![pos] = e]
                 ELSE SiftDownRange(rev, [h EXCEPT ![pos] = h[c]], e, c, end)
        ELSE IF child = end /\ ~CandLe(rev, h[child], e)
        THEN [h EXCEPT ![pos] = h[child], ![child] = e]
        ELSE [h EXCEPT ![pos] = e]

\* BinaryHeap::into_sorted_vec: heap sort in place, ascending.
RECURSIVE IntoSortedVec(_, _, _)
IntoSortedVec(rev, h, end) ==
    IF end <= 1 THEN h
    ELSE LET swapped == [h EXCEPT ![1] = h[end], ![end] = h[1]]
         IN  IntoSortedVec(rev,
                 SiftDownRange(rev, swapped, swapped[1], 1, end - 1), end - 1)

\* ------------------------------------------------------------------------
\* hnsw.rs: the pure parts (an index is passed as its node map `ns`)
\* ------------------------------------------------------------------------

\* Hnsw::dist
dist(v1, v2) == euclidean_distance(v1, v2)

\* guard.layers.get(l): the layer-l adjacency list, or nothing when the node
\* has no such layer (layer l of the source is element l + 1 here).
LayerGet(ns, id, l) ==
    IF l + 1 <= Len(ns[id].layers) THEN ns[id].layers[l + 1] ELSE <<>>

\* The body of `for &neighbor_id in neighbors` of the greedy walk: st holds
\* curr_ep, curr_dist and changed.
RECURSIVE GreedyScan(_, _, _, _, _)
GreedyScan(ns, q, nbrs, i, st) ==
    IF i > Len(nbrs) THEN st
    ELSE LET d == dist(q, ns[nbrs[i]].vector)
         IN  GreedyScan(ns, q, nbrs, i + 1,
                 IF d < st.dist
                 THEN [ep |-> nbrs[i], dist |-> d, changed |-> TRUE]
                 ELSE st)

\* The neighbours scanned once, the loop left out.
GreedyLayerOnce(ns, q, l, st) ==
    GreedyScan(ns, q, LayerGet(ns, st.ep, l), 1,
        [ep |-> st.ep, dist |-> st.dist, changed |-> FALSE])

\* `while changed { ... }` on one layer.
RECURSIVE GreedyLayer(_, _, _, _)
GreedyLayer(ns, q, l, st) ==
    LET r == GreedyScan(ns, q, LayerGet(ns, st.ep, l), 1,
                 [ep |-> st.ep, dist |-> st.dist, changed |-> FALSE])
    IN  IF r.changed THEN GreedyLayer(ns, q, l, r) ELSE r

\* `for l in (lo..=hi).rev()` of the greedy walk.
RECURSIVE GreedyDescent(_, _, _, _, _)
GreedyDescent(ns, q, lo, l, st) ==
    IF l < lo THEN st
    ELSE GreedyDescent(ns, q, lo, l - 1, GreedyLayer(ns, q, l, st))

\* The body of `for &neighbor_id in neighbors` of search_layer: st holds
\* visited, candidates (a heap of Reverse) and nearest_neighbors.
RECURSIVE SearchLayerScan(_, _, _, _, _, _)
SearchLayerScan(ns, q, ef, nbrs, i, st) ==
    IF i > Len(nbrs) THEN st
    ELSE IF nbrs[i] \in st.visited THEN SearchLayerScan(ns, q, ef, nbrs, i + 1, st)
    ELSE LET d    == dist(q, ns[nbrs[i]].vector)
             c    == Candidate(nbrs[i], d)
             vis  == st.visited \cup {nbrs[i]}
             take == Len(st.nn) < ef \/ d < HeapPeek(st.nn).distance
             nn1  == HeapPush(FALSE, st.nn, c)
             nn2  == IF Len(nn1) > ef THEN HeapPop(FALSE, nn1) ELSE nn1
         IN  SearchLayerScan(ns, q, ef, nbrs, i + 1,
                 IF take
                 THEN [visited |-> vis, cand |-> HeapPush(TRUE, st.cand, c), nn |-> nn2]
                 ELSE [st EXCEPT !.visited = vis])

\* `while let Some(Reverse(curr)) = candidates.pop()` of search_layer.
RECURSIVE SearchLayerLoop(_, _, _, _, _)
SearchLayerLoop(ns, q, ef, layer, st) ==
    IF Len(st.cand) = 0 THEN st.nn
    ELSE LET curr == HeapPeek(st.cand)
             rest == HeapPop(TRUE, st.cand)
         IN  IF Len(st.nn) > 0 /\ curr.distance > HeapPeek(st.nn).distance
                               /\ Len(st.nn) >= ef
             THEN st.nn
             ELSE SearchLayerLoop(ns, q, ef, layer,
                      SearchLayerScan(ns, q, ef, LayerGet(ns, curr.id, layer), 1,
                          [st EXCEPT !.cand = rest]))

\* Hnsw::search_layer: the heap nearest_neighbors.
search_layer(ns, q, entry, ef, layer) ==
    LET entry_cand == Candidate(entry, dist(q, ns[entry].vector))
    IN  SearchLayerLoop(ns, q, ef, layer,
            [visited |-> {entry}, cand |-> <<entry_cand>>, nn |-> <<entry_cand>>])

\* The truncation left out.
TakeAll(s, n) == s

\* sorted_candidates.iter().take(m)
Take(s, n) == SubSeq(s, 1, IF n < Len(s) THEN n ELSE Len(s))

CandIds(s) == [i \in 1..Len(s) |-> s[i].id]

\* Hnsw::select_neighbors: the ids of the m candidates of least distance.
select_neighbors(candidates, m) ==
    CandIds(Take(IntoSortedVec(FALSE, candidates, Len(candidates)), m))

\* neighbor_candidates after the pushes of lines 155-159: the neighbor's list
\* as a heap keyed by the distance to the neighbor's own vector.
RECURSIVE PruneHeap(_, _, _, _, _)
PruneHeap(ns, nvec, list, i, h) ==
    IF i > Len(list) THEN h
    ELSE PruneHeap(ns, nvec, list, i + 1,
             HeapPush(FALSE, h, Candidate(list[i], dist(nvec, ns[list[i]].vector))))

\* `while neighbor_candidates.len() > m_max { pop }`
RECURSIVE PopDownTo(_, _)
PopDownTo(h, m_max) ==
    IF Len(h) > m_max THEN PopDownTo(HeapPop(FALSE, h), m_max) ELSE h

\* Mutant of MMax: the layer-0 bound on every layer.
MMaxEveryLayer0(l) == MMax0

\* if l == 0 { m_max0 } else { m }
MMax(l) == IF l = 0 THEN MMax0 ELSE M

\* Lines 147-167: the list pushed to, pruned to the m_max closest when longer.
Prune(ns, nid, list, m_max) ==
    IF Len(list) > m_max
    THEN CandIds(PopDownTo(PruneHeap(ns, ns[nid].vector, list, 1, <<>>), m_max))
    ELSE list

\* Lines 140-168: the back links of the new node `id` on layer l.  The result
\* is [ok, ns]: neighbor_guard.layers[l] panics when the neighbor has no layer
\* l, and the insert then unwinds, leaving the node map as it was at that point.
RECURSIVE Connect(_, _, _, _, _)
Connect(ns, id, l, neighbors, i) ==
    IF i > Len(neighbors) THEN [ok |-> TRUE, ns |-> ns]
    ELSE LET nid == neighbors[i]
         IN  IF l + 1 > Len(ns[nid].layers) THEN [ok |-> FALSE, ns |-> ns]
             ELSE LET pushed == Append(ns[nid].layers[l + 1], id)
                      ns1    == [ns EXCEPT ![nid].layers[l + 1] = pushed]
                      ns2    == [ns1 EXCEPT ![nid].layers[l + 1] =
                                     Prune(ns1, nid, pushed, MMax(l))]
                  IN  Connect(ns2, id, l, neighbors, i + 1)

\* candidates.iter().min_by(distance): the first of the least ones, in the
\* order of the heap's Vec.
RECURSIVE MinBy(_, _, _)
MinBy(h, i, best) ==
    IF i > Len(h) THEN best
    ELSE MinBy(h, i + 1, IF h[i].distance < best.distance THEN h[i] ELSE best)

\* Phase 2 of insert, the body of `for l in (0..=min(level, max_layers)).rev()`
\* from layer l down; the result is [ok, ns] as for Connect.
RECURSIVE InsertLayers(_, _, _, _, _)
InsertLayers(ns, id, vector, l, curr_ep) ==
    IF l < 0 THEN [ok |-> TRUE, ns |-> ns]
    ELSE LET candidates == search_layer(ns, vector, curr_ep, EfConstruction, l)
             neighbors  == select_neighbors(candidates, M)
             ns1        == [ns EXCEPT ![id].layers[l + 1] = neighbors]
             linked     == Connect(ns1, id, l, neighbors, 1)
             best_cand  == MinBy(candidates, 2, candidates[1])
         IN  IF linked.ok
             THEN InsertLayers(linked.ns, id, vector, l - 1, best_cand.id)
             ELSE linked

Min(a, b) == IF a < b THEN a ELSE b

\* Mutant of InsertTop: Phase 2 starts on the level drawn, above max_layers too.
InsertTopNoMin(level, ml) == level

\* std::cmp::min(level, self.max_layers): the layer Phase 2 starts on.
InsertTop(level, ml) == Min(level, ml)

\* vec![vec![]; level + 1]
EmptyLayers(level) == [i \in 1..(level + 1) |-> <<>>]

\* self.nodes.insert(id, new_node)
MapInsert(ns, id, node) ==
    [k \in DOMAIN ns \cup {id} |-> IF k = id THEN node ELSE ns[k]]

\* Mutant of StartOf: the walk starts at the node being inserted.
StartOfSelf(ix, id) == id

\* Lines 92-101: the node the walk of an insert starts at (the index has an
\* entry point).
StartOf(ix, id) == ix.entry_point

\* Mutant of Promote: max_layers is raised and the entry point is left.
PromoteKeepEntry(ix, id, level) ==
    IF level > ix.max_layers
    THEN [entry_point |-> ix.entry_point, max_layers |-> level]
    ELSE [entry_point |-> ix.entry_point, max_layers |-> ix.max_layers]

\* Lines 184-187: the entry point and max_layers an insert ends with.
Promote(ix, id, level) ==
    IF level > ix.max_layers
    THEN [entry_point |-> id, max_layers |-> level]
    ELSE [entry_point |-> ix.entry_point, max_layers |-> ix.max_layers]

\* Hnsw::insert with the level random_level drew.  ix is the index as a
\* record of its fields nodes, entry_point and max_layers; the result has
\* these fields and `panic`, TRUE when the insert panicked on the way.
HnswInsert(ix, id, vector, level) ==
    LET ns0 == MapInsert(ix.nodes, id, [vector |-> vector, layers |-> EmptyLayers(level)])
    IN  IF ix.entry_point = None
        THEN [nodes |-> ns0, entry_point |-> id, max_layers |-> level, panic |-> FALSE]
        ELSE LET ep0  == StartOf(ix, id)
                 st0  == [ep |-> ep0, dist |-> dist(vector, ns0[ep0].vector),
                          changed |-> FALSE]
                 st1  == GreedyDescent(ns0, vector, level + 1, ix.max_layers, st0)
                 done == InsertLayers(ns0, id, vector,
                             InsertTop(level, ix.max_layers), st1.ep)
                 top  == Promote(ix, id, level)
             IN  IF done.ok
                 THEN [nodes |-> done.ns, entry_point |-> top.entry_point,
                       max_layers |-> top.max_layers, panic |-> FALSE]
                 ELSE [nodes |-> done.ns, entry_point |-> ix.entry_point,
                       max_layers |-> ix.max_layers, panic |-> TRUE]

\* `while let Some(c) = candidates.pop() { results.push(..) }`, then reverse.
RECURSIVE Drain(_)
Drain(h) ==
    IF Len(h) = 0 THEN <<>>
    ELSE Append(Drain(HeapPop(FALSE, h)), <<HeapPeek(h).id, HeapPeek(h).distance>>)

\* Hnsw::search: a sequence of pairs <<id, distance>>.
HnswSearch(ix, query, k) ==
    IF ix.entry_point = None THEN <<>>
    ELSE LET ep0 == ix.entry_point
             st0 == [ep |-> ep0, dist |-> dist(query, ix.nodes[ep0].vector),
                     changed |-> FALSE]
             st1 == GreedyDescent(ix.nodes, query, 1, ix.max_layers, st0)
             ef  == IF EfConstruction > k THEN EfConstruction ELSE k
         IN  Take(Drain(search_layer(ix.nodes, query, st1.ep, ef, 0)), k)

\* Hnsw::new
HnswNew == [nodes |-> <<>>, entry_point |-> None, max_layers |-> 0]

\* ------------------------------------------------------------------------
\* wal.rs: the bytes of a record.  A u32 is kept as its four little-endian
\* bytes wherever it may exceed 2^31 - 1.
\* ------------------------------------------------------------------------

\* The exclusive or of two bytes.
RECURSIVE Xor8(_, _)
Xor8(a, b) ==
    IF a = 0 THEN b
    ELSE IF b = 0 THEN a
    ELSE ((a + b) % 2) + 2 * Xor8(a \div 2, b \div 2)

Xor32(x, y) == [i \in 1..4 |-> Xor8(x[i], y[i])]

\* x >> 1 on little-endian bytes.
Shr1(x) ==
    << (x[1] \div 2) + 128 * (x[2] % 2), (x[2] \div 2) + 128 * (x[3] % 2),
       (x[3] \div 2) + 128 * (x[4] % 2), x[4] \div 2 >>

\* One entry of the table of CRC-32 (the reflected polynomial 0xEDB88320),
\* the checksum crc32fast::Hasher computes.
RECURSIVE CrcEntry(_, _)
CrcEntry(c, n) ==
    IF n = 0 THEN c
    ELSE CrcEntry(IF c[1] % 2 = 1 THEN Xor32(Shr1(c), <<32, 131, 184, 237>>)
                  ELSE Shr1(c), n - 1)

CrcTable == [i \in 0..255 |-> CrcEntry(<<i, 0, 0, 0>>, 8)]

\* The state of the hasher after one more byte b: the table entry of the low
\* byte xor b, xor the state shifted right by eight bits.
CrcByte[crc \in [1..4 -> 0..255], b \in 0..255] ==
    Xor32(CrcTable[Xor8(crc[1], b)], <<crc[2], crc[3], crc[4], 0>>)

\* hasher.update(&data[..n]): the state of the hasher after the first n bytes.
RECURSIVE CrcUpdate(_, _)
CrcUpdate(data, n) ==
    IF n = 0 THEN <<255, 255, 255, 255>>
    ELSE CrcByte[CrcUpdate(data, n - 1), data[n]]

\* hasher.update(&data); hasher.finalize().to_le_bytes()
Crc32(data) ==
    LET c == CrcUpdate(data, Len(data))
    IN  [i \in 1..4 |-> 255 - c[i]]

\* n.to_le_bytes() of a u32 below 2^31.
U32LE(n) ==
    << n % 256, (n \div 256) % 256, (n \div 65536) % 256, n \div 16777216 >>

\* n.to_le_bytes() of a u64 below 2^31.
U64LE(n) == U32LE(n) \o <<0, 0, 0, 0>>

\* u32::from_le_bytes, of bytes whose value is below 2^31.
FromLE(b) == b[1] + 256 * b[2] + 65536 * b[3] + 16777216 * b[4]

RECURSIVE Pow2(_)
Pow2(e) == IF e = 0 THEN 1 ELSE 2 * Pow2(e - 1)

\* floor(log2(a)) for a >= 1
RECURSIVE Log2(_)
Log2(a) == IF a < 2 THEN 0 ELSE 1 + Log2(a \div 2)

\* The IEEE-754 single of an integer x, |x| < 2^24, as little-endian bytes:
\* sign, exponent 127 + e, and the 23 bits below the leading one.
F32LE(x) ==
    IF x = 0 THEN <<0, 0, 0, 0>>
    ELSE LET a    == IF x < 0 THEN 0 - x ELSE x
             e    == Log2(a)
             bits == (127 + e) * 8388608 + (a - Pow2(e)) * Pow2(23 - e)
             b    == U32LE(bits)
         IN  IF x < 0 THEN [b EXCEPT ![4] = b[4] + 128] ELSE b

\* The f32 of four bytes: the integer it is, or the bytes themselves when it
\* is none.
F32From(b) ==
    LET bits == FromLE([b EXCEPT ![4] = b[4] % 128])
        ex   == bits \div 8388608
        mant == bits % 8388608
    IN  IF bits = 0 THEN 0
        ELSE IF ex >= 127 /\ ex <= 150 /\ mant % Pow2(23 - (ex - 127)) = 0
        THEN LET a == Pow2(ex - 127) + mant \div Pow2(23 - (ex - 127))
             IN  IF b[4] >= 128 THEN 0 - a ELSE a
        ELSE [f32 |-> b]

RECURSIVE FlatF32(_, _)
FlatF32(v, i) == IF i > Len(v) THEN <<>> ELSE F32LE(v[i]) \o FlatF32(v, i + 1)

\* The variant index serde gives OpType.
OpIndex(op) == IF op = "Insert" THEN 0 ELSE 1

\* bincode::serialize(entry): the variant index of op as a u32, vector_id as a
\* u32, the length of vector as a u64, and its elements.
Serialize(entry) ==
    U32LE(OpIndex(entry.op)) \o U32LE(entry.vector_id)
        \o U64LE(Len(entry.vector)) \o FlatF32(entry.vector, 1)

\* Lines 50-53: [CRC32 (4 bytes)] [Length (8 bytes)] [Data]
Frame(entry) ==
    LET data == Serialize(entry)
    IN  Crc32(data) \o U64LE(Len(data)) \o data

\* The bytes d[from + 1 .. from + n] (from counts from 0, as an offset does).
Slice(d, from, n) == SubSeq(d, from + 1, from + n)

\* u64::from_le_bytes(len_buf) as usize, or TooLong when it is 2^24 or more:
\* no file of the model is that long.
TooLong == 256 * 256 * 256

LenFrom(b) ==
    IF b[4] # 0 \/ b[5] # 0 \/ b[6] # 0 \/ b[7] # 0 \/ b[8] # 0 THEN TooLong
    ELSE b[1] + 256 * b[2] + 65536 * b[3]

RECURSIVE F32Seq(_, _, _)
F32Seq(d, from, n) ==
    IF n = 0 THEN <<>>
    ELSE <<F32From(Slice(d, from, 4))>> \o F32Seq(d, from + 4, n - 1)

\* bincode::deserialize(&data): [ok, entry].  It fails on a variant index
\* other than 0 and 1 and on data that end early; bytes after the entry are
\* allowed.
Deserialize(d) ==
    LET bad == [ok |-> FALSE, entry |-> <<>>]
    IN  IF Len(d) < 16 THEN bad
        ELSE LET var == Slice(d, 0, 4)
                 n   == LenFrom(Slice(d, 8, 8))
             IN  IF var \notin {<<0, 0, 0, 0>>, <<1, 0, 0, 0>>} THEN bad
                 ELSE IF n = TooLong \/ Len(d) < 16 + 4 * n THEN bad
                 ELSE [ok |-> TRUE,
                       entry |-> [op |-> IF var[1] = 0 THEN "Insert" ELSE "Delete",
                                  vector_id |-> FromLE(Slice(d, 4, 4)),
                                  vector |-> F32Seq(d, 16, n)]]

\* Mutant of CrcMismatch: the checksum is not compared.
CrcMismatchNever(data, expected_crc) == FALSE

\* hasher.finalize() != expected_crc
CrcMismatch(data, expected_crc) == Crc32(data) # expected_crc

\* The loop of Wal::read_all from offset pos on, `entries` read so far.  The
\* result is [ok, entries, err].
RECURSIVE ReadLoop(_, _, _)
ReadLoop(f, pos, entries) ==
    LET left == Len(f) - pos
    IN  IF left < 4
        THEN \* read_exact(&mut crc_buf) fails with UnexpectedEof: break
             [ok |-> TRUE, entries |-> entries, err |-> "none"]
        ELSE IF left < 12
        THEN [ok |-> FALSE, entries |-> <<>>, err |-> "UnexpectedEof"]
        ELSE LET expected_crc == Slice(f, pos, 4)
                 len          == LenFrom(Slice(f, pos + 4, 8))
             IN  IF len = TooLong \/ left - 12 < len
                 THEN [ok |-> FALSE, entries |-> <<>>, err |-> "UnexpectedEof"]
                 ELSE LET data == Slice(f, pos + 12, len)
                          got  == Deserialize(data)
                      IN  IF CrcMismatch(data, expected_crc)
                          THEN [ok |-> FALSE, entries |-> <<>>, err |-> "InvalidData"]
                          ELSE IF ~got.ok
                          THEN [ok |-> FALSE, entries |-> <<>>, err |-> "Other"]
                          ELSE ReadLoop(f, pos + 12 + len, Append(entries, got.entry))

\* Wal::read_all on a file of bytes f.
ReadAll(f) == ReadLoop(f, 0, <<>>)

\* ------------------------------------------------------------------------
\* index/hnsw.rs: the bytes of a snapshot.  bincode writes the fields of
\* Hnsw in the order of their declaration: a map as its length and its
\* entries in the order the HashMap yields them, an Option as a tag byte, a
\* usize as a u64, level_mult as the eight bytes of an f64.  A Node is its id,
\* its vector and its layers; an Array1 is written by ndarray as its format
\* version 1, its dimension and its elements.
\* ------------------------------------------------------------------------

\* 1.0 / (m as f64).ln() for m = M = 2, as the little-endian bytes of the
\* f64 0x3FF71547652B82FE.
LevelMult == <<254, 130, 43, 101, 71, 21, 247, 63>>

\* An Array1<f32>.
EncodeArray(v) == <<1>> \o U64LE(Len(v)) \o U64LE(Len(v)) \o FlatF32(v, 1)

\* A Vec<u32>, from its element i on.
RECURSIVE EncodeIds(_, _)
EncodeIds(list, i) ==
    IF i > Len(list) THEN <<>> ELSE U32LE(list[i]) \o EncodeIds(list, i + 1)

\* The elements of a Vec<Vec<u32>>, from element i on.
RECURSIVE EncodeLayers(_, _)
EncodeLayers(layers, i) ==
    IF i > Len(layers) THEN <<>>
    ELSE U64LE(Len(layers[i])) \o EncodeIds(layers[i], 1)
            \o EncodeLayers(layers, i + 1)

\* A Node: the Arc and the RwLock around it leave no byte.
EncodeNode(id, node) ==
    U32LE(id) \o EncodeArray(node.vector)
        \o U64LE(Len(node.layers)) \o EncodeLayers(node.layers, 1)

\* The entries of the map, in the order `order` of its keys.
RECURSIVE EncodeNodes(_, _, _)
EncodeNodes(ns, order, i) ==
    IF i > Len(order) THEN <<>>
    ELSE U32LE(order[i]) \o EncodeNode(order[i], ns[order[i]])
            \o EncodeNodes(ns, order, i + 1)

\* Mutant of EncodeOption: the entry point is written as None.
EncodeOptionNone(ep) == <<0>>

\* An Option<u32>.
EncodeOption(ep) == IF ep = None THEN <<0>> ELSE <<1>> \o U32LE(ep)

\* save_snapshot: bincode::serialize_into(writer, self), the HashMap
\* yielding its keys in the order `order`.
SaveSnapshot(ix, order) ==
    U64LE(Len(order)) \o EncodeNodes(ix.nodes, order, 1)
        \o EncodeOption(ix.entry_point) \o U64LE(ix.max_layers)
        \o U64LE(EfConstruction) \o U64LE(M) \o U64LE(MMax0) \o LevelMult

\* The orders a HashMap of keys S may yield them in.
Orders(S) ==
    {o \in [1..Cardinality(S) -> S] : \A i, j \in 1..Cardinality(S) :
                                          i # j => o[i] # o[j]}

\* A read that failed: the bytes ended early, or a tag or a length is none.
Bad == [ok |-> FALSE, val |-> <<>>, pos |-> 0]

\* A u64 read at offset pos as a usize: [ok, val, pos], pos the offset
\* behind it.
ReadU64(d, pos) ==
    IF Len(d) < pos + 8 THEN Bad
    ELSE IF LenFrom(Slice(d, pos, 8)) = TooLong THEN Bad
    ELSE [ok |-> TRUE, val |-> LenFrom(Slice(d, pos, 8)), pos |-> pos + 8]

\* A u32 read at offset pos.
ReadU32(d, pos) ==
    IF Len(d) < pos + 4 THEN Bad
    ELSE [ok |-> TRUE, val |-> FromLE(Slice(d, pos, 4)), pos |-> pos + 4]

\* The one element of a set of one element: Only({f(x) : x \in {e}}) is f(e)
\* with e computed once, where the code binds a value read to a name.
Only(S) == CHOOSE x \in S : TRUE

\* An Array1<f32> read at offset pos: ndarray refuses another version than
\* 1 and a dimension that is not the number of elements.
ReadArray(d, pos) ==
    IF Len(d) < pos + 17 THEN Bad
    ELSE Only({IF d[pos + 1] # 1 \/ ~dim.ok \/ ~n.ok THEN Bad
               ELSE IF dim.val # n.val \/ Len(d) < pos + 17 + 4 * n.val
                    THEN Bad
               ELSE [ok |-> TRUE, val |-> F32Seq(d, pos + 17, n.val),
                     pos |-> pos + 17 + 4 * n.val] :
               dim \in {ReadU64(d, pos + 1)}, n \in {ReadU64(d, pos + 9)}})

\* n u32 read from offset pos on, behind the ones of acc.
RECURSIVE ReadIds(_, _, _, _)
ReadIds(d, pos, n, acc) ==
    IF n = 0 THEN [ok |-> TRUE, val |-> acc, pos |-> pos]
    ELSE Only({IF ~x.ok THEN Bad
               ELSE ReadIds(d, x.pos, n - 1, Append(acc, x.val)) :
               x \in {ReadU32(d, pos)}})

\* The ids of one Vec<u32> whose length len was read.
ReadList(d, len) ==
    IF ~len.ok THEN Bad ELSE ReadIds(d, len.pos, len.val, <<>>)

\* n Vec<u32> read from offset pos on, behind the ones of acc.
RECURSIVE ReadLayers(_, _, _, _)
ReadLayers(d, pos, n, acc) ==
    IF n = 0 THEN [ok |-> TRUE, val |-> acc, pos |-> pos]
    ELSE Only({IF ~ids.ok THEN Bad
               ELSE ReadLayers(d, ids.pos, n - 1, Append(acc, ids.val)) :
               ids \in {ReadList(d, ReadU64(d, pos))}})

\* The layers of a Node, behind its id and its vector.
ReadNodeLayers(d, id, vector) ==
    IF ~vector.ok THEN Bad
    ELSE Only({IF ~n.ok THEN Bad
               ELSE Only({IF ~layers.ok THEN Bad
                          ELSE [ok  |-> TRUE,
                                val |-> [id |-> id.val,
                                         vector |-> vector.val,
                                         layers |-> layers.val],
                                pos |-> layers.pos] :
                          layers \in {ReadLayers(d, n.pos, n.val, <<>>)}}) :
               n \in {ReadU64(d, vector.pos)}})

\* A Node read at offset pos.
ReadNode(d, pos) ==
    Only({IF ~id.ok THEN Bad
          ELSE Only({ReadNodeLayers(d, id, vector) :
                     vector \in {ReadArray(d, id.pos)}}) :
          id \in {ReadU32(d, pos)}})

\* n entries of the map read from offset pos on, into the map acc.
RECURSIVE ReadNodes(_, _, _, _)
ReadNodes(d, pos, n, acc) ==
    IF n = 0 THEN [ok |-> TRUE, val |-> acc, pos |-> pos]
    ELSE Only({IF ~key.ok THEN Bad
               ELSE Only({IF ~node.ok THEN Bad
                          ELSE ReadNodes(d, node.pos, n - 1,
                                         MapInsert(acc, key.val, node.val)) :
                          node \in {ReadNode(d, key.pos)}}) :
               key \in {ReadU32(d, pos)}})

\* An Option<u32> read at offset pos: the tag is 0 or 1.
ReadOption(d, pos) ==
    IF Len(d) < pos + 1 THEN Bad
    ELSE IF d[pos + 1] = 0 THEN [ok |-> TRUE, val |-> None, pos |-> pos + 1]
    ELSE IF d[pos + 1] = 1 THEN ReadU32(d, pos + 1)
    ELSE Bad

\* The index that failed to load.
NoHnsw == [ok |-> FALSE]

\* load_snapshot: bincode::deserialize_from(reader), [ok] or the fields of
\* the Hnsw read.
LoadSnapshot(d) ==
    Only({IF ~n.ok THEN NoHnsw
          ELSE Only({IF ~ns.ok THEN NoHnsw
                     ELSE Only({IF ~ep.ok \/ Len(d) < ep.pos + 40 THEN NoHnsw
                                ELSE [ok |-> TRUE,
                                      nodes |-> ns.val,
                                      entry_point |-> ep.val,
                                      max_layers |-> LenFrom(Slice(d, ep.pos, 8)),
                                      ef_construction |->
                                          LenFrom(Slice(d, ep.pos + 8, 8)),
                                      m |-> LenFrom(Slice(d, ep.pos + 16, 8)),
                                      m_max0 |-> LenFrom(Slice(d, ep.pos + 24, 8)),
                                      level_mult |-> Slice(d, ep.pos + 32, 8)] :
                                ep \in {ReadOption(d, ns.pos)}}) :
                     ns \in {ReadNodes(d, n.pos, n.val, <<>>)}}) :
          n \in {ReadU64(d, 0)}})

\* ------------------------------------------------------------------------
\* The index on its own: inserts of distinct ids, and searches
\* ------------------------------------------------------------------------

NoSearch == [query |-> <<>>, k |-> 0, out |-> <<>>]

\* The k of a search.
Ks == 0..(MaxNodes + 1)

Index == [nodes |-> nodes, entry_point |-> entry_point, max_layers |-> max_layers]

IndexInit ==
    /\ nodes = HnswNew.nodes
    /\ entry_point = HnswNew.entry_point
    /\ max_layers = HnswNew.max_layers
    /\ panicked = FALSE
    /\ drawn = <<>>
    /\ results = NoSearch

\* The one id the model hands to the next insert, the least unused one: the
\* index compares ids for equality alone, so which fresh id arrives does not
\* matter to it.
FreshId(id) ==
    /\ id \notin DOMAIN nodes
    /\ \A j \in Ids \ DOMAIN nodes : id <= j

\* The caller of the index is sequential, as the tests of index/tests.rs are:
\* it holds the result of at most one search, and lets go of it (Drop) before
\* its next call.

NoRead == [ok |-> FALSE, entries |-> <<>>, err |-> "unread"]

\* No log file yet, and no Wal value.
WalInit ==
    /\ wal_file = <<>>
    /\ wal_open = FALSE
    /\ wal_session = 0
    /\ appended = <<>>
    /\ torn = 0
    /\ read_result = NoRead

\* The handlers of the backend that run at once.
Threads == {1, 2}

NoFile == [exists |-> FALSE]

NoReq == [id |-> 0, vector |-> <<>>]

\* The backend process is not started, and has left no file.
ServerInit ==
    /\ server_up = FALSE
    /\ pc = [t \in Threads |-> "idle"]
    /\ req = [t \in Threads |-> NoReq]
    /\ replies = [t \in Threads |-> "none"]
    /\ snapshot_file = NoFile
    /\ acked = {}
    /\ applied = <<>>
    /\ crashes = 0

\* ------------------------------------------------------------------------
\* bin/router.rs: the ring, the preference list and the merge of a search
\* ------------------------------------------------------------------------

\* The addresses of the backends.
Addrs == {"n1", "n2", "n3"}

\* The keys of the requests.
Keys == {1, 2, 3, 4}

\* DefaultHasher over an address: a fixed function of the string.  The
\* values stand for the 64-bit hashes; their order is not the order of the
\* addresses.  Distinct addresses are taken to hash apart.
HashAddr(addr) ==
    CASE addr = "n1" -> 40
      [] addr = "n2" -> 10
      [] addr = "n3" -> 60

\* DefaultHasher over a u32 key: key 1 falls before every node, key 2 on the
\* hash of a node, key 3 between two nodes, key 4 after every node.
HashKey(key) ==
    CASE key = 1 -> 5
      [] key = 2 -> 40
      [] key = 3 -> 45
      [] key = 4 -> 90

\* ConsistentHashRing::new
RingNew == <<>>

\* ConsistentHashRing::add_node: BTreeMap::insert keeps the entries by
\* ascending hash and replaces the entry of an equal hash.
add_node(r, node_addr) ==
    LET hash == HashAddr(node_addr)
    IN  SelectSeq(r, LAMBDA e : e.hash < hash)
        \o <<[hash |-> hash, addr |-> node_addr]>>
        \o SelectSeq(r, LAMBDA e : e.hash > hash)

\* self.nodes.range(hash..): the entries of hash at least hash, ascending.
RingRange(r, hash) == SelectSeq(r, LAMBDA e : e.hash >= hash)

\* The walk without its second lap.
RingIterNoWrap(r, hash) == RingRange(r, hash)

\* self.nodes.range(hash..).chain(self.nodes.iter())
RingIter(r, hash) == RingRange(r, hash) \o r

\* unique_nodes.insert(addr): TRUE iff addr was not yet collected.
IsNewAddr(out, addr) == \A j \in 1..Len(out) : out[j] # addr

\* The while loop of get_preference_list; unique_nodes holds the elements
\* of out, i is the position of iter.
RECURSIVE PrefLoop(_, _, _, _, _)
PrefLoop(r, n, iter, i, out) ==
    IF Len(out) < n /\ Len(out) < Len(r)
    THEN IF i <= Len(iter)
         THEN PrefLoop(r, n, iter, i + 1,
                       IF IsNewAddr(out, iter[i].addr)
                       THEN Append(out, iter[i].addr) ELSE out)
         ELSE out
    ELSE out

\* ConsistentHashRing::get_preference_list
get_preference_list(r, key, n) ==
    IF r = <<>> THEN <<>>
    ELSE PrefLoop(r, n, RingIter(r, HashKey(key)), 1, <<>>)

\* ConsistentHashRing::get_all_nodes
get_all_nodes(r) == [j \in 1..Len(r) |-> r[j].addr]

\* A SearchResult; the distance in thousandths.
Result(id, distance) == [id |-> id, distance |-> distance]

\* The sort left out: x goes to the end.
InsertUnsorted(sorted, x) == Append(sorted, x)

\* sort_by places x behind the elements that do not compare greater: the
\* sort is stable.
InsertStable(sorted, x) ==
    LET p == Cardinality({j \in 1..Len(sorted) :
                            sorted[j].distance <= x.distance})
    IN  SubSeq(sorted, 1, p) \o <<x>> \o SubSeq(sorted, p + 1, Len(sorted))

\* all_results.sort_by(distance), over the first n elements.
RECURSIVE SortByDistance(_, _)
SortByDistance(all, n) ==
    IF n = 0 THEN <<>>
    ELSE InsertStable(SortByDistance(all, n - 1), all[n])

\* The deduplication switched off.
IsNewIdAlways(unique, id) == TRUE

\* seen_ids.insert(res.id): TRUE iff the id was not yet seen.  seen_ids
\* holds the ids of unique.
IsNewId(unique, id) == \A j \in 1..Len(unique) : unique[j].id # id

\* The loop over the sorted results: push, then break once k are held.
RECURSIVE DedupLoop(_, _, _, _)
DedupLoop(all, i, unique, k) ==
    IF i > Len(all) THEN unique
    ELSE LET pushed == IF IsNewId(unique, all[i].id)
                       THEN Append(unique, all[i]) ELSE unique
         IN  IF Len(pushed) >= k THEN pushed
             ELSE DedupLoop(all, i + 1, pushed, k)

\* The merge of Router::search.
Merge(all_results, k) ==
    DedupLoop(SortByDistance(all_results, Len(all_results)), 1, <<>>, k)

\* The router's handler at rest.
NoRouter ==
    [pc |-> "idle", op |-> "none", id |-> 0, k |-> 0, targets |-> <<>>,
     rest |-> {}, i |-> 0, successes |-> 0, errors |-> <<>>,
     all_results |-> <<>>, contacted |-> <<>>, heard |-> <<>>]

NoReply == [kind |-> "none", results |-> <<>>]

\* main before its first add_node: an empty ring, every backend running.
RouterInit ==
    /\ ring = RingNew
    /\ serving = FALSE
    /\ replication_factor = 0
    /\ write_quorum = 0
    /\ up = Addrs
    /\ router = NoRouter
    /\ router_reply = NoReply

\* The lock of the index free, no search made, the graph of Hnsw::new.
NoSearchReq == [state |-> "none", query |-> <<>>, k |-> 0, graph |-> HnswNew,
                out |-> <<>>]

ConcInit ==
    /\ index_lock = [writer |-> 0, readers |-> {}]
    /\ srch = [t \in Threads |-> NoSearchReq]
    /\ versions = {HnswNew}
    /\ wal_lock = 0

Init == IndexInit /\ WalInit /\ ServerInit /\ RouterInit /\ ConcInit

\* The state after hnsw.insert(id, vector), random_level returning level.
DoInsert(id, vector, level) ==
    /\ LET r == HnswInsert(Index, id, vector, level)
       IN  /\ nodes' = r.nodes
           /\ entry_point' = r.entry_point
           /\ max_layers' = r.max_layers
           /\ panicked' = r.panic
    /\ drawn' = MapInsert(drawn, id, level)
    /\ UNCHANGED results
    /\ UNCHANGED walVars
    /\ UNCHANGED srvVars
    /\ UNCHANGED rtrVars
    /\ UNCHANGED concVars

\* hnsw.insert(id, vector), random_level returning level.
Insert(id, vector, level) ==
    /\ results = NoSearch
    /\ ~panicked
    /\ FreshId(id)
    /\ Cardinality(DOMAIN nodes) < MaxNodes
    /\ DoInsert(id, vector, level)

\* hnsw.search(query, k)
Search(query, k) ==
    /\ results = NoSearch
    /\ results' = [query |-> query, k |-> k, out |-> HnswSearch(Index, query, k)]
    /\ UNCHANGED <<nodes, entry_point, max_layers, panicked, drawn>>
    /\ UNCHANGED walVars
    /\ UNCHANGED srvVars
    /\ UNCHANGED rtrVars
    /\ UNCHANGED concVars

\* The result of the search goes out of scope.
Drop ==
    /\ results # NoSearch
    /\ results' = NoSearch
    /\ UNCHANGED <<nodes, entry_point, max_layers, panicked, drawn>>
    /\ UNCHANGED walVars
    /\ UNCHANGED srvVars
    /\ UNCHANGED rtrVars
    /\ UNCHANGED concVars

IndexNext ==
    \/ \E id \in Ids, vector \in Points, level \in Levels : Insert(id, vector, level)
    \/ \E query \in Points, k \in Ks : Search(query, k)
    \/ Drop

Spec == Init /\ [][IndexNext]_vars

\* ------------------------------------------------------------------------
\* The index filled with pairwise distinct points of the plane, each insert
\* drawing level 0 (the likeliest draw), up to PlaneNodes nodes: the runs of
\* the program in which no two distances from a stored vector are made equal
\* by equal vectors.
\* ------------------------------------------------------------------------

\* hnsw.insert(id, vector) of a vector not stored yet, random_level returning 0.
InsertPlane(id, vector) ==
    /\ results = NoSearch
    /\ ~panicked
    /\ FreshId(id)
    /\ Cardinality(DOMAIN nodes) < PlaneNodes
    /\ \A n \in DOMAIN nodes : nodes[n].vector # vector
    /\ DoInsert(id, vector, 0)

PlaneNext ==
    \/ \E id \in Ids, vector \in PlanePoints : InsertPlane(id, vector)
    \/ \E query \in PlanePoints, k \in {1, PlaneNodes + 1} : Search(query, k)
    \/ Drop

PlaneSpec == Init /\ [][PlaneNext]_vars

\* ------------------------------------------------------------------------
\* The index with levels up to 2, so that the greedy walk crosses two
\* layers.
\* ------------------------------------------------------------------------

TallLevels == {0, 1, 2}

TallNext ==
    \/ \E id \in Ids, vector \in Points, level \in TallLevels : Insert(id, vector, level)
    \/ \E query \in Points : Search(query, 1)
    \/ Drop

TallSpec == Init /\ [][TallNext]_vars

\* ------------------------------------------------------------------------
\* The log on its own: a file that starts empty, Wal values opened on it and
\* dropped, appends, a write cut short by a crash, and read_all
\* ------------------------------------------------------------------------

\* The largest number of records appended to a log.
MaxRecords == 2

\* The largest number of Wal::new calls on a log.
MaxOpens == 2

\* The records handed to append.
WalEntries ==
    { [op |-> "Insert", vector_id |-> 1, vector |-> <<1>>],
      [op |-> "Insert", vector_id |-> 258, vector |-> <<-2, 3>>],
      [op |-> "Delete", vector_id |-> 1, vector |-> <<>>] }

\* Mutant of OpenAppend: the file is opened with truncate, as File::create does.
OpenTruncate(f) == <<>>

\* OpenOptions::new().create(true).append(true).open(path): the bytes of the
\* file afterwards.
OpenAppend(f) == f

\* Lines 51-57 on a file opened for append: the frame goes to its end.
WriteFrame(f, entry) == f \o Frame(entry)

\* Wal::new(path)
WalNew ==
    /\ ~wal_open
    /\ wal_session < MaxOpens
    /\ wal_open' = TRUE
    /\ wal_session' = wal_session + 1
    /\ wal_file' = OpenAppend(wal_file)
    /\ UNCHANGED <<appended, torn, read_result>>
    /\ UNCHANGED idxVars
    /\ UNCHANGED srvVars
    /\ UNCHANGED rtrVars
    /\ UNCHANGED concVars

\* The Wal value is dropped.
WalClose ==
    /\ wal_open
    /\ read_result = NoRead
    /\ wal_open' = FALSE
    /\ UNCHANGED <<wal_file, wal_session, appended, torn, read_result>>
    /\ UNCHANGED idxVars
    /\ UNCHANGED srvVars
    /\ UNCHANGED rtrVars
    /\ UNCHANGED concVars

\* wal.append(entry) returning Ok.  The model follows a log up to its first
\* record cut short: nothing is appended after one.
WalAppend(entry) ==
    /\ wal_open
    /\ read_result = NoRead
    /\ torn = 0
    /\ Len(appended) < MaxRecords
    /\ wal_file' = WriteFrame(wal_file, entry)
    /\ appended' = Append(appended, [entry |-> entry, session |-> wal_session,
                                      offset |-> Len(wal_file)])
    /\ UNCHANGED <<wal_open, wal_session, torn, read_result>>
    /\ UNCHANGED idxVars
    /\ UNCHANGED srvVars
    /\ UNCHANGED rtrVars
    /\ UNCHANGED concVars

\* wal.append(entry) cut short by a crash of the process: the first n bytes
\* of the frame are on disk, and the Wal value is gone.
WalTear(entry, n) ==
    /\ wal_open
    /\ read_result = NoRead
    /\ torn = 0
    /\ Len(appended) < MaxRecords
    /\ n < Len(Frame(entry))
    /\ wal_file' = wal_file \o SubSeq(Frame(entry), 1, n)
    /\ torn' = n
    /\ wal_open' = FALSE
    /\ UNCHANGED <<wal_session, appended, read_result>>
    /\ UNCHANGED idxVars
    /\ UNCHANGED srvVars
    /\ UNCHANGED rtrVars
    /\ UNCHANGED concVars

\* wal.read_all()
WalReadAll ==
    /\ wal_open
    /\ read_result = NoRead
    /\ read_result' = ReadAll(wal_file)
    /\ UNCHANGED <<wal_file, wal_open, wal_session, appended, torn>>
    /\ UNCHANGED idxVars
    /\ UNCHANGED srvVars
    /\ UNCHANGED rtrVars
    /\ UNCHANGED concVars

\* The result of read_all goes out of scope.
WalForget ==
    /\ read_result # NoRead
    /\ read_result' = NoRead
    /\ UNCHANGED <<wal_file, wal_open, wal_session, appended, torn>>
    /\ UNCHANGED idxVars
    /\ UNCHANGED srvVars
    /\ UNCHANGED rtrVars
    /\ UNCHANGED concVars

\* The offsets a frame may be cut at: every one inside the longest frame.
TearOffsets == 1..(12 + 16 + 4 * 2 - 1)

WalNext ==
    \/ WalNew
    \/ WalClose
    \/ \E entry \in WalEntries : WalAppend(entry)
    \/ \E entry \in WalEntries, n \in TearOffsets : WalTear(entry, n)
    \/ WalReadAll
    \/ WalForget

WalSpec == Init /\ [][WalNext]_vars

\* ------------------------------------------------------------------------
\* The log with a record damaged on disk: appends as before, and one byte of
\* the payload of one record changed behind the program's back
\* ------------------------------------------------------------------------

\* The bits flipped in the damaged byte.
Masks == {1, 64}

\* The payload of every appended record is on disk as it was written.
PayloadsAsWritten ==
    \A j \in 1..Len(appended) :
        Slice(wal_file, appended[j].offset + 12, Len(Serialize(appended[j].entry)))
            = Serialize(appended[j].entry)

\* Byte pos (counted from 0) of the payload of record i is changed on disk;
\* its checksum and its length stay as written.  One byte of a run is damaged.
WalCorrupt(i, pos, mask) ==
    /\ read_result = NoRead
    /\ i \in 1..Len(appended)
    /\ pos < Len(Serialize(appended[i].entry))
    /\ PayloadsAsWritten
    /\ LET at == appended[i].offset + 12 + pos + 1
       IN  wal_file' = [wal_file EXCEPT ![at] = Xor8(wal_file[at], mask)]
    /\ UNCHANGED <<wal_open, wal_session, appended, torn, read_result>>
    /\ UNCHANGED idxVars
    /\ UNCHANGED srvVars
    /\ UNCHANGED rtrVars
    /\ UNCHANGED concVars

\* The offsets of the bytes of the longest payload.
PayloadOffsets == 0..(16 + 4 * 2 - 1)

CorruptNext ==
    \/ WalNew
    \/ WalClose
    \/ \E entry \in WalEntries : WalAppend(entry)
    \/ \E i \in 1..MaxRecords, pos \in PayloadOffsets, mask \in Masks : WalCorrupt(i, pos, mask)
    \/ WalReadAll
    \/ WalForget

CorruptSpec == Init /\ [][CorruptNext]_vars

\* ------------------------------------------------------------------------
\* The backend: the process of bin/server.rs, its handlers of put running at
\* once, snapshots, crashes of the process and its boots
\* ------------------------------------------------------------------------

\* The largest number of ids put to the backend.
MaxPuts == 2

\* The largest number of crashes of the backend.
MaxCrashes == 1

\* The vectors of the requests: those of the index, and the empty one.
PutVectors == {<<>>, <<1>>, <<3>>}

\* The offsets a frame is cut at when the process dies in append: inside the
\* checksum, and inside the payload.
Cuts == {2, 20}

\* The ids a put was accepted with: in flight, logged, or in the index.
UsedIds ==
    {req[t].id : t \in {u \in Threads : pc[u] # "idle"}}
        \cup {appended[i].entry.vector_id : i \in 1..Len(appended)}
        \cup DOMAIN nodes

\* The validation switched off.
VectorIsEmptyNever(vector) == FALSE

\* vector_data.is_empty()
VectorIsEmpty(vector) == vector = <<>>

\* Readers taken in beside a writer.
CanReadAlways(lock) == TRUE

\* self.index.read() is granted: no writer holds the lock.
CanRead(lock) == lock.writer = 0

\* self.index.write() is granted: nobody holds the lock.
CanWrite(lock) == lock.writer = 0 /\ lock.readers = {}

\* Mutant of PutOrder: the index is updated before the log is written.
PutOrderIndexFirst == <<"index", "wal">>

\* The two blocks of put, in program order: "1. Write to WAL", then
\* "2. Update Index".
PutOrder == <<"wal", "index">>

\* The place of a handler after the block `step`.
AfterStep(step) == IF step = PutOrder[1] THEN PutOrder[2] ELSE "reply"

\* main(): the index is the snapshot when the file is there and a new one
\* otherwise, and the log is opened.  The log is not read.
Boot ==
    /\ ~server_up
    /\ server_up' = TRUE
    /\ LET hnsw == IF snapshot_file.exists THEN snapshot_file.hnsw ELSE HnswNew
       IN  /\ nodes' = hnsw.nodes
           /\ entry_point' = hnsw.entry_point
           /\ max_layers' = hnsw.max_layers
    /\ drawn' = IF snapshot_file.exists THEN snapshot_file.drawn ELSE <<>>
    /\ wal_file' = OpenAppend(wal_file)
    /\ wal_open' = TRUE
    /\ wal_session' = wal_session + 1
    /\ UNCHANGED <<panicked, results, appended, torn, read_result>>
    /\ UNCHANGED <<pc, req, replies, snapshot_file, acked, applied, crashes>>
    /\ UNCHANGED rtrVars
    /\ UNCHANGED concVars

\* What a crash of the process leaves: the files.
Crashed ==
    /\ server_up' = FALSE
    /\ crashes' = crashes + 1
    /\ pc' = [t \in Threads |-> "idle"]
    /\ req' = [t \in Threads |-> NoReq]
    /\ replies' = [t \in Threads |-> "none"]
    /\ nodes' = <<>>
    /\ entry_point' = None
    /\ max_layers' = 0
    /\ drawn' = <<>>
    /\ wal_open' = FALSE
    /\ UNCHANGED <<panicked, results, wal_session, appended, read_result>>
    /\ UNCHANGED <<snapshot_file, acked, applied>>
    /\ UNCHANGED rtrVars
    /\ UNCHANGED concVars

\* The process dies between two steps of its handlers.
Crash ==
    /\ server_up
    /\ crashes < MaxCrashes
    /\ Crashed
    /\ UNCHANGED <<wal_file, torn>>

\* The process dies while handler t is in wal.append: the first n bytes of
\* the frame are on disk.  The model cuts one write of a run at most.
CrashInAppend(t, n) ==
    /\ server_up
    /\ crashes < MaxCrashes
    /\ pc[t] = "wal"
    /\ torn = 0
    /\ wal_file' = wal_file \o SubSeq(Frame([op |-> "Insert", vector_id |-> req[t].id,
                                              vector |-> req[t].vector]), 1, n)
    /\ torn' = n
    /\ Crashed

\* The record put writes for its request.
EntryOf(r) == [op |-> "Insert", vector_id |-> r.id, vector |-> r.vector]

\* A put request reaches handler t, with an id the backend has not seen (ids
\* are unique within a backend).  An empty vector is refused at once.
PutCall(t, id, vector) ==
    /\ server_up
    /\ pc[t] = "idle"
    /\ id \notin UsedIds
    /\ \A j \in 1..MaxPuts : j \notin UsedIds => id <= j
    /\ id <= MaxPuts
    /\ IF VectorIsEmpty(vector)
       THEN /\ replies' = [replies EXCEPT ![t] = "invalid_argument"]
            /\ UNCHANGED <<pc, req>>
       ELSE /\ pc' = [pc EXCEPT ![t] = PutOrder[1]]
            /\ req' = [req EXCEPT ![t] = [id |-> id, vector |-> vector]]
            /\ replies' = [replies EXCEPT ![t] = "none"]
    /\ UNCHANGED <<server_up, snapshot_file, acked, applied, crashes>>
    /\ UNCHANGED idxVars
    /\ UNCHANGED walVars
    /\ UNCHANGED rtrVars
    /\ UNCHANGED concVars

\* The block "1. Write to WAL", append returning Ok: the mutex of the log is
\* taken, the record appended, the mutex released.
PutWal(t) ==
    /\ server_up
    /\ pc[t] = "wal"
    /\ wal_file' = WriteFrame(wal_file, EntryOf(req[t]))
    /\ appended' = Append(appended, [entry |-> EntryOf(req[t]), session |-> wal_session,
                                      offset |-> Len(wal_file)])
    /\ pc' = [pc EXCEPT ![t] = AfterStep("wal")]
    /\ UNCHANGED <<wal_open, wal_session, torn, read_result>>
    /\ UNCHANGED <<server_up, req, replies, snapshot_file, acked, applied, crashes>>
    /\ UNCHANGED idxVars
    /\ UNCHANGED rtrVars
    /\ UNCHANGED concVars

\* The handler going on to the index after a failed append.
WalErrFallsThrough == "index"

\* return Err(Status::internal(..)) after a failed append: the handler ends.
WalErrReturns == "idle"

\* The block "1. Write to WAL", append returning Err before a byte of the
\* frame has left the BufWriter for the file: put returns Status::internal.
PutWalErr(t) ==
    /\ server_up
    /\ pc[t] = "wal"
    /\ pc' = [pc EXCEPT ![t] = WalErrReturns]
    /\ req' = [req EXCEPT ![t] = IF WalErrReturns = "idle" THEN NoReq ELSE @]
    /\ replies' = [replies EXCEPT ![t] = "internal"]
    /\ UNCHANGED <<wal_file, wal_open, wal_session, appended, torn, read_result>>
    /\ UNCHANGED <<server_up, snapshot_file, acked, applied, crashes>>
    /\ UNCHANGED idxVars
    /\ UNCHANGED rtrVars
    /\ UNCHANGED concVars

\* The block "2. Update Index": the write lock of the index is taken, the
\* vector inserted (random_level returning level), the lock released.
PutIndex(t, level) ==
    /\ server_up
    /\ pc[t] = "index"
    /\ ~panicked
    /\ LET r == HnswInsert(Index, req[t].id, req[t].vector, level)
       IN  /\ nodes' = r.nodes
           /\ entry_point' = r.entry_point
           /\ max_layers' = r.max_layers
           /\ panicked' = r.panic
    /\ drawn' = MapInsert(drawn, req[t].id, level)
    /\ applied' = Append(applied, [id |-> req[t].id, wal_len |-> Len(wal_file)])
    /\ pc' = [pc EXCEPT ![t] = AfterStep("index")]
    /\ UNCHANGED results
    /\ UNCHANGED <<server_up, req, replies, snapshot_file, acked, crashes>>
    /\ UNCHANGED walVars
    /\ UNCHANGED rtrVars
    /\ UNCHANGED concVars

\* Ok(Response::new(PutResponse { success: true }))
PutReply(t) ==
    /\ server_up
    /\ pc[t] = "reply"
    /\ replies' = [replies EXCEPT ![t] = "ok"]
    /\ acked' = acked \cup {req[t]}
    /\ pc' = [pc EXCEPT ![t] = "idle"]
    /\ req' = [req EXCEPT ![t] = NoReq]
    /\ UNCHANGED <<server_up, snapshot_file, applied, crashes>>
    /\ UNCHANGED idxVars
    /\ UNCHANGED walVars
    /\ UNCHANGED rtrVars
    /\ UNCHANGED concVars

\* snapshot(): under the read lock of the index, index.save_snapshot(path).
Snapshot ==
    /\ server_up
    /\ CanRead(index_lock)
    /\ snapshot_file' = [exists |-> TRUE, hnsw |-> Index, drawn |-> drawn]
    /\ UNCHANGED <<server_up, pc, req, replies, acked, applied, crashes>>
    /\ UNCHANGED idxVars
    /\ UNCHANGED walVars
    /\ UNCHANGED rtrVars
    /\ UNCHANGED concVars

BackendNext ==
    \/ Boot
    \/ Crash
    \/ \E t \in Threads, n \in Cuts : CrashInAppend(t, n)
    \/ \E t \in Threads, id \in 1..MaxPuts, vector \in PutVectors : PutCall(t, id, vector)
    \/ \E t \in Threads : PutWal(t)
    \/ \E t \in Threads : PutWalErr(t)
    \/ \E t \in Threads, level \in Levels : PutIndex(t, level)
    \/ \E t \in Threads : PutReply(t)
    \/ Snapshot

BackendSpec == Init /\ [][BackendNext]_vars

\* ------------------------------------------------------------------------
\* Replay of the log: the backend as above, without snapshots; a client
\* whose put got no answer before a crash sends it again to the restarted
\* process; and, while the process is down, a recovery that builds an index
\* from what read_all returns
\* ------------------------------------------------------------------------

\* A put is sent again: its record i is in the log, the process died before
\* the put was answered, and the index of the restarted process lacks the id.
PutAgain(t, i) ==
    /\ server_up
    /\ pc[t] = "idle"
    /\ i \in 1..Len(appended)
    /\ appended[i].session < wal_session
    /\ appended[i].entry.vector_id \notin DOMAIN nodes
    /\ \A u \in Threads : pc[u] # "idle" => req[u].id # appended[i].entry.vector_id
    /\ \A r \in acked : r.id # appended[i].entry.vector_id
    /\ pc' = [pc EXCEPT ![t] = PutOrder[1]]
    /\ req' = [req EXCEPT ![t] = [id |-> appended[i].entry.vector_id,
                                  vector |-> appended[i].entry.vector]]
    /\ replies' = [replies EXCEPT ![t] = "none"]
    /\ UNCHANGED <<server_up, snapshot_file, acked, applied, crashes>>
    /\ UNCHANGED idxVars
    /\ UNCHANGED walVars
    /\ UNCHANGED rtrVars
    /\ UNCHANGED concVars

\* The restarted process is stopped while no request is in it.
Stop ==
    /\ server_up
    /\ crashes = MaxCrashes
    /\ \A t \in Threads : pc[t] = "idle"
    /\ Crashed
    /\ UNCHANGED <<wal_file, torn>>

\* hnsw.insert(entry.vector_id, entry.vector) for the entries from the i-th
\* on, random_level returning levels[i] for the i-th; a panic ends it.
RECURSIVE ReplayFrom(_, _, _, _)
ReplayFrom(ix, entries, levels, i) ==
    IF i > Len(entries) \/ ix.panic THEN ix
    ELSE Only({ReplayFrom(r, entries, levels, i + 1) :
               r \in {HnswInsert(ix, entries[i].vector_id, entries[i].vector,
                                 levels[i])}})

\* Recovery: wal.read_all(), and when it returns Ok(entries), the entries
\* inserted in order into Hnsw::new.
Replay(levels) ==
    /\ ~server_up
    /\ read_result = NoRead
    /\ read_result' = ReadAll(wal_file)
    /\ \E r \in {ReplayFrom([nodes |-> HnswNew.nodes,
                             entry_point |-> HnswNew.entry_point,
                             max_layers |-> HnswNew.max_layers, panic |-> FALSE],
                            ReadAll(wal_file).entries, levels, 1)} :
           /\ nodes' = r.nodes
           /\ entry_point' = r.entry_point
           /\ max_layers' = r.max_layers
           /\ panicked' = r.panic
    /\ UNCHANGED <<drawn, results>>
    /\ UNCHANGED <<wal_file, wal_open, wal_session, appended, torn>>
    /\ UNCHANGED srvVars
    /\ UNCHANGED rtrVars
    /\ UNCHANGED concVars

ReplayNext ==
    \/ read_result = NoRead /\ Boot
    \/ Crash
    \/ Stop
    \/ \E t \in Threads, n \in Cuts : CrashInAppend(t, n)
    \/ \E t \in Threads, id \in 1..MaxPuts, vector \in PutVectors : PutCall(t, id, vector)
    \/ \E t \in Threads, i \in 1..MaxPuts : PutAgain(t, i)
    \/ \E t \in Threads : PutWal(t)
    \/ \E t \in Threads : PutWalErr(t)
    \/ \E t \in Threads, level \in Levels : PutIndex(t, level)
    \/ \E t \in Threads : PutReply(t)
    \/ \E levels \in [1..Len(ReadAll(wal_file).entries) -> Levels] : Replay(levels)

ReplaySpec == Init /\ [][ReplayNext]_vars

\* ------------------------------------------------------------------------
\* The snapshot as bytes: an index built by inserts is saved, the HashMap
\* yielding its nodes in any order, and a process started on the file loads
\* it.  The inserts end with the first save.
\* ------------------------------------------------------------------------

\* index.save_snapshot(path): File::create replaces the file.
SnapshotSave(order) ==
    /\ ~server_up
    /\ results = NoSearch
    /\ snapshot_file' = [exists |-> TRUE, hnsw |-> Index, drawn |-> drawn,
                         bytes |-> SaveSnapshot(Index, order)]
    /\ UNCHANGED <<server_up, pc, req, replies, acked, applied, crashes>>
    /\ UNCHANGED <<idxVars, walVars, rtrVars, concVars>>

\* main on a snapshot file: the index is what load_snapshot reads, and the
\* log is opened.  When load_snapshot fails main returns the error.
BootFromBytes ==
    /\ ~server_up
    /\ snapshot_file.exists
    /\ \E hnsw \in {LoadSnapshot(snapshot_file.bytes)} :
           /\ hnsw.ok
           /\ nodes' = [id \in DOMAIN hnsw.nodes |->
                           [vector |-> hnsw.nodes[id].vector,
                            layers |-> hnsw.nodes[id].layers]]
           /\ entry_point' = hnsw.entry_point
           /\ max_layers' = hnsw.max_layers
           /\ drawn' = [id \in DOMAIN hnsw.nodes |-> Len(hnsw.nodes[id].layers) - 1]
    /\ server_up' = TRUE
    /\ wal_file' = OpenAppend(wal_file)
    /\ wal_open' = TRUE
    /\ wal_session' = wal_session + 1
    /\ UNCHANGED <<panicked, results, appended, torn, read_result>>
    /\ UNCHANGED <<pc, req, replies, snapshot_file, acked, applied, crashes>>
    /\ UNCHANGED <<rtrVars, concVars>>

SnapNext ==
    \/ \E id \in Ids, vector \in Points, level \in Levels :
          ~snapshot_file.exists /\ Insert(id, vector, level)
    \/ \E order \in Orders(DOMAIN nodes) :
          ~snapshot_file.exists /\ SnapshotSave(order)
    \/ BootFromBytes

SnapSpec == Init /\ [][SnapNext]_vars

\* ------------------------------------------------------------------------
\* bin/server.rs: the handlers at the grain of the lock of the index.
\* index.insert is taken in two steps: the node enters the map with empty
\* lists, then it is linked; search and snapshot read under the read lock.
\* ------------------------------------------------------------------------

SearchQueries == {<<>>, <<1>>}
SearchKs == {1, 2}

\* "2. Update Index": self.index.write().await is granted.
PutIndexLock(t) ==
    /\ server_up
    /\ pc[t] = "index"
    /\ CanWrite(index_lock)
    /\ index_lock' = [index_lock EXCEPT !.writer = t]
    /\ pc' = [pc EXCEPT ![t] = "locked"]
    /\ UNCHANGED <<srch, versions, wal_lock>>
    /\ UNCHANGED <<server_up, req, replies, snapshot_file, acked, applied, crashes>>
    /\ UNCHANGED <<idxVars, walVars, rtrVars>>

\* Hnsw::insert up to self.nodes.insert(id, new_node): the level is drawn,
\* the node is in the map, no list holds it and it holds none.
PutIndexNode(t, level) ==
    /\ pc[t] = "locked"
    /\ nodes' = MapInsert(nodes, req[t].id,
                          [vector |-> req[t].vector, layers |-> EmptyLayers(level)])
    /\ drawn' = MapInsert(drawn, req[t].id, level)
    /\ pc' = [pc EXCEPT ![t] = "linking"]
    /\ UNCHANGED <<entry_point, max_layers, panicked, results>>
    /\ UNCHANGED <<server_up, req, replies, snapshot_file, acked, applied, crashes>>
    /\ UNCHANGED <<walVars, rtrVars, concVars>>

\* The rest of Hnsw::insert, and the write guard dropped at the end of the
\* block.
PutIndexLink(t) ==
    /\ pc[t] = "linking"
    /\ ~panicked
    /\ LET r == HnswInsert(Index, req[t].id, req[t].vector, drawn[req[t].id])
       IN  /\ nodes' = r.nodes
           /\ entry_point' = r.entry_point
           /\ max_layers' = r.max_layers
           /\ panicked' = r.panic
           /\ versions' = versions \cup
                {[nodes |-> r.nodes, entry_point |-> r.entry_point,
                  max_layers |-> r.max_layers]}
    /\ applied' = Append(applied, [id |-> req[t].id, wal_len |-> Len(wal_file)])
    /\ index_lock' = [index_lock EXCEPT !.writer = 0]
    /\ pc' = [pc EXCEPT ![t] = AfterStep("index")]
    /\ UNCHANGED <<drawn, results, srch, wal_lock>>
    /\ UNCHANGED <<server_up, req, replies, snapshot_file, acked, crashes>>
    /\ UNCHANGED <<walVars, rtrVars>>

\* A search request reaches handler t.  An empty vector is refused at once.
SearchCall(t, vector, k) ==
    /\ server_up
    /\ pc[t] = "idle"
    /\ IF VectorIsEmpty(vector)
       THEN /\ replies' = [replies EXCEPT ![t] = "invalid_argument"]
            /\ UNCHANGED <<pc, srch>>
       ELSE /\ pc' = [pc EXCEPT ![t] = "search"]
            /\ srch' = [srch EXCEPT ![t] = [NoSearchReq EXCEPT !.state = "called",
                                                              !.query = vector,
                                                              !.k = k]]
            /\ replies' = [replies EXCEPT ![t] = "none"]
    /\ UNCHANGED <<index_lock, versions, wal_lock>>
    /\ UNCHANGED <<server_up, req, snapshot_file, acked, applied, crashes>>
    /\ UNCHANGED <<idxVars, walVars, rtrVars>>

\* self.index.read().await is granted.
SearchLock(t) ==
    /\ pc[t] = "search"
    /\ CanRead(index_lock)
    /\ index_lock' = [index_lock EXCEPT !.readers = @ \cup {t}]
    /\ pc' = [pc EXCEPT ![t] = "reading"]
    /\ UNCHANGED <<srch, versions, wal_lock>>
    /\ UNCHANGED <<server_up, req, replies, snapshot_file, acked, applied, crashes>>
    /\ UNCHANGED <<idxVars, walVars, rtrVars>>

\* index.search(&vector.view(), k), the read guard dropped, the reply.
SearchRead(t) ==
    /\ pc[t] = "reading"
    /\ srch' = [srch EXCEPT ![t] = [@ EXCEPT !.state = "done",
                                             !.graph = Index,
                                             !.out = HnswSearch(Index, srch[t].query,
                                                                srch[t].k)]]
    /\ index_lock' = [index_lock EXCEPT !.readers = @ \ {t}]
    /\ replies' = [replies EXCEPT ![t] = "ok"]
    /\ pc' = [pc EXCEPT ![t] = "idle"]
    /\ UNCHANGED <<versions, wal_lock>>
    /\ UNCHANGED <<server_up, req, snapshot_file, acked, applied, crashes>>
    /\ UNCHANGED <<idxVars, walVars, rtrVars>>

\* The backend without crashes, its handlers interleaved between any two
\* of their steps.
ConcNext ==
    \/ Boot
    \/ \E t \in Threads, id \in 1..MaxPuts, vector \in PutVectors : PutCall(t, id, vector)
    \/ \E t \in Threads : PutWal(t)
    \/ \E t \in Threads : PutWalErr(t)
    \/ \E t \in Threads : PutIndexLock(t)
    \/ \E t \in Threads, level \in Levels : PutIndexNode(t, level)
    \/ \E t \in Threads : PutIndexLink(t)
    \/ \E t \in Threads : PutReply(t)
    \/ \E t \in Threads, vector \in SearchQueries, k \in SearchKs : SearchCall(t, vector, k)
    \/ \E t \in Threads : SearchLock(t)
    \/ \E t \in Threads : SearchRead(t)
    \/ Snapshot

ConcSpec == Init /\ [][ConcNext]_vars

\* ------------------------------------------------------------------------
\* bin/server.rs: put at the grain of its two locks, the Mutex of the log
\* and the RwLock of the index.
\* ------------------------------------------------------------------------

\* The guard of the log kept to the end of put.
WalGuardKept(t) == t

\* The holder of the Mutex of the log after the block "1. Write to WAL":
\* the guard `wal` goes out of scope with the block, nobody holds it.
WalGuardDropped(t) == 0

\* self.wal.lock() is granted.
PutWalLock(t) ==
    /\ server_up
    /\ pc[t] = "wal"
    /\ wal_lock = 0
    /\ wal_lock' = t
    /\ pc' = [pc EXCEPT ![t] = "wal_held"]
    /\ UNCHANGED <<index_lock, srch, versions>>
    /\ UNCHANGED <<server_up, req, replies, snapshot_file, acked, applied, crashes>>
    /\ UNCHANGED <<idxVars, walVars, rtrVars>>

\* wal.append(&entry) returns Ok, and the block ends.
PutWalAppend(t) ==
    /\ pc[t] = "wal_held"
    /\ wal_file' = WriteFrame(wal_file, EntryOf(req[t]))
    /\ appended' = Append(appended, [entry |-> EntryOf(req[t]), session |-> wal_session,
                                      offset |-> Len(wal_file)])
    /\ wal_lock' = WalGuardDropped(t)
    /\ pc' = [pc EXCEPT ![t] = AfterStep("wal")]
    /\ UNCHANGED <<wal_open, wal_session, torn, read_result>>
    /\ UNCHANGED <<index_lock, srch, versions>>
    /\ UNCHANGED <<server_up, req, replies, snapshot_file, acked, applied, crashes>>
    /\ UNCHANGED <<idxVars, rtrVars>>

\* wal.append(&entry) returns Err: put returns Status::internal, the guard
\* dropped on the way out.
PutWalAppendErr(t) ==
    /\ pc[t] = "wal_held"
    /\ wal_lock' = 0
    /\ pc' = [pc EXCEPT ![t] = "idle"]
    /\ req' = [req EXCEPT ![t] = NoReq]
    /\ replies' = [replies EXCEPT ![t] = "internal"]
    /\ UNCHANGED <<index_lock, srch, versions>>
    /\ UNCHANGED <<server_up, snapshot_file, acked, applied, crashes>>
    /\ UNCHANGED <<idxVars, walVars, rtrVars>>

\* The put handlers of a backend, interleaved between any two lock
\* operations.
LockNext ==
    \/ Boot
    \/ \E t \in Threads, id \in 1..MaxPuts, vector \in PutVectors : PutCall(t, id, vector)
    \/ \E t \in Threads : PutWalLock(t)
    \/ \E t \in Threads : PutWalAppend(t)
    \/ \E t \in Threads : PutWalAppendErr(t)
    \/ \E t \in Threads : PutIndexLock(t)
    \/ \E t \in Threads, level \in Levels : PutIndexNode(t, level)
    \/ \E t \in Threads : PutIndexLink(t)
    \/ \E t \in Threads : PutReply(t)

LockSpec == Init /\ [][LockNext]_vars

\* ------------------------------------------------------------------------
\* bin/router.rs: the router over its backends.  A backend is the set of
\* its answers: it is reachable or not, it accepts a Put or rejects it, it
\* answers a Search with its nearest k or with an error.
\* ------------------------------------------------------------------------

MaxReplicas == 3
MaxN == 4
RouterKs == {0, 1, 2, 3}

\* The nearest results a backend may hold for a query, nearest first, ids
\* distinct: two replicas agree on id 7, a third holds id 9 as near as id 7
\* and id 7 at another distance.
Locals ==
    { <<>>,
      <<Result(7, 100), Result(9, 300)>>,
      <<Result(7, 100), Result(4, 200)>>,
      <<Result(9, 100), Result(7, 150)>> }

\* results.truncate(k) of the backend's search.
Truncate(found, k) ==
    IF Len(found) > k THEN SubSeq(found, 1, k) ELSE found

\* main: ring.add_node(addr), before the router serves.
AddNode(addr) ==
    /\ ~serving
    /\ ring' = add_node(ring, addr)
    /\ UNCHANGED <<serving, replication_factor, write_quorum, up, router,
                   router_reply>>
    /\ UNCHANGED <<idxVars, walVars, srvVars, concVars>>

\* main: Router::new(ring, r, w), then serve.
Serve(r, w) ==
    /\ ~serving
    /\ serving' = TRUE
    /\ replication_factor' = r
    /\ write_quorum' = w
    /\ UNCHANGED <<ring, up, router, router_reply>>
    /\ UNCHANGED <<idxVars, walVars, srvVars, concVars>>

\* A backend stops accepting connections.
NodeDown(addr) ==
    /\ addr \in up
    /\ up' = up \ {addr}
    /\ UNCHANGED <<ring, serving, replication_factor, write_quorum, router,
                   router_reply>>
    /\ UNCHANGED <<idxVars, walVars, srvVars, concVars>>

\* A backend accepts connections again.
NodeUp(addr) ==
    /\ addr \notin up
    /\ up' = up \cup {addr}
    /\ UNCHANGED <<ring, serving, replication_factor, write_quorum, router,
                   router_reply>>
    /\ UNCHANGED <<idxVars, walVars, srvVars, concVars>>

\* The early return switched off.
IsEmptyNever(n) == FALSE

\* targets.is_empty(), over the number of targets.
IsEmpty(n) == n = 0

\* The handler is free to take a request.
RouterFree == serving /\ router.pc \in {"idle", "done"}

\* A call of ring.get_preference_list(key, n) on its own.
PreferenceList(key, n) ==
    /\ RouterFree
    /\ router' = [NoRouter EXCEPT !.pc = "done", !.op = "pref", !.id = key,
                                  !.k = n,
                                  !.targets = get_preference_list(ring, key, n)]
    /\ router_reply' = NoReply
    /\ UNCHANGED <<ring, serving, replication_factor, write_quorum, up>>
    /\ UNCHANGED <<idxVars, walVars, srvVars, concVars>>

\* Router::put up to its loop: the targets, and the early return.
RouterPut(id) ==
    /\ RouterFree
    /\ LET targets == get_preference_list(ring, id, replication_factor)
       IN  IF IsEmpty(Len(targets))
           THEN /\ router' = [NoRouter EXCEPT !.pc = "done", !.op = "put",
                                              !.id = id]
                /\ router_reply' = [kind |-> "unavailable", results |-> <<>>]
           ELSE /\ router' = [NoRouter EXCEPT !.pc = "put", !.op = "put",
                                              !.id = id, !.targets = targets,
                                              !.i = 1]
                /\ router_reply' = NoReply
    /\ UNCHANGED <<ring, serving, replication_factor, write_quorum, up>>
    /\ UNCHANGED <<idxVars, walVars, srvVars, concVars>>

\* One turn of the loop of Router::put: connect, then put; the backend
\* accepts the Put or rejects it.
RouterPutTarget(accepts) ==
    /\ router.pc = "put"
    /\ router.i <= Len(router.targets)
    /\ LET target == router.targets[router.i]
           seen   == [router EXCEPT !.i = @ + 1,
                                    !.contacted = Append(@, target)]
       IN  router' =
             IF target \notin up
             THEN [seen EXCEPT !.errors = Append(@, "connect")]
             ELSE IF accepts
             THEN [seen EXCEPT !.successes = @ + 1]
             ELSE [seen EXCEPT !.errors = Append(@, "status")]
    /\ UNCHANGED <<ring, serving, replication_factor, write_quorum, up,
                   router_reply>>
    /\ UNCHANGED <<idxVars, walVars, srvVars, concVars>>

\* The status of a Put short of its quorum.
QuorumNotMet == "internal"

\* The quorum test with the comparison turned.
QuorumMetNever(successes, quorum) == successes > MaxReplicas

\* successes >= self.write_quorum
QuorumMet(successes, quorum) == successes >= quorum

\* The end of Router::put.
RouterPutReply ==
    /\ router.pc = "put"
    /\ router.i > Len(router.targets)
    /\ router' = [router EXCEPT !.pc = "done"]
    /\ router_reply' =
         [kind    |-> IF QuorumMet(router.successes, write_quorum)
                      THEN "ok" ELSE QuorumNotMet,
          results |-> <<>>]
    /\ UNCHANGED <<ring, serving, replication_factor, write_quorum, up>>
    /\ UNCHANGED <<idxVars, walVars, srvVars, concVars>>

\* The set of the elements of a sequence of addresses.
AddrSet(seq) == {seq[j] : j \in 1..Len(seq)}

\* Router::search up to its loop: the distinct nodes, and the early return.
RouterSearch(k) ==
    /\ RouterFree
    /\ LET unique == AddrSet(get_all_nodes(ring))
       IN  IF IsEmpty(Cardinality(unique))
           THEN /\ router' = [NoRouter EXCEPT !.pc = "done",
                                              !.op = "search", !.k = k]
                /\ router_reply' = [kind |-> "unavailable", results |-> <<>>]
           ELSE /\ router' = [NoRouter EXCEPT !.pc = "search",
                                              !.op = "search", !.k = k,
                                              !.rest = unique]
                /\ router_reply' = NoReply
    /\ UNCHANGED <<ring, serving, replication_factor, write_quorum, up>>
    /\ UNCHANGED <<idxVars, walVars, srvVars, concVars>>

\* One turn of the loop of Router::search.  The HashSet yields the targets
\* in an order of its own: any target not yet taken may be the next.  The
\* backend answers with its nearest k, or with an error.
RouterSearchTarget(target, local, answers) ==
    /\ router.pc = "search"
    /\ target \in router.rest
    /\ LET seen == [router EXCEPT !.rest = @ \ {target},
                                  !.contacted = Append(@, target)]
       IN  router' =
             IF target \in up /\ answers
             THEN [seen EXCEPT !.all_results = @ \o Truncate(local, router.k),
                               !.heard = Append(@, Truncate(local, router.k))]
             ELSE seen
    /\ UNCHANGED <<ring, serving, replication_factor, write_quorum, up,
                   router_reply>>
    /\ UNCHANGED <<idxVars, walVars, srvVars, concVars>>

\* A search that no backend answered refused.
SearchStatusStrict(responders) ==
    IF responders = 0 THEN "unavailable" ELSE "ok"

\* The status of a search past its loop: Ok, whatever the number of
\* backends that answered.
SearchStatus(responders) == "ok"

\* The end of Router::search: sort, deduplicate, reply.
RouterSearchReply ==
    /\ router.pc = "search"
    /\ router.rest = {}
    /\ router' = [router EXCEPT !.pc = "done"]
    /\ router_reply' = [kind    |-> SearchStatus(Len(router.heard)),
                        results |-> Merge(router.all_results, router.k)]
    /\ UNCHANGED <<ring, serving, replication_factor, write_quorum, up>>
    /\ UNCHANGED <<idxVars, walVars, srvVars, concVars>>

RouterNext ==
    \/ \E addr \in Addrs : AddNode(addr)
    \/ \E r \in 1..MaxReplicas : \E w \in 1..r : Serve(r, w)
    \/ \E addr \in Addrs : NodeDown(addr)
    \/ \E addr \in Addrs : NodeUp(addr)
    \/ \E key \in Keys : \E n \in 0..MaxN : PreferenceList(key, n)
    \/ \E id \in Keys : RouterPut(id)
    \/ \E accepts \in BOOLEAN : RouterPutTarget(accepts)
    \/ RouterPutReply
    \/ \E k \in RouterKs : RouterSearch(k)
    \/ \E target \in Addrs : \E local \in Locals : \E answers \in BOOLEAN :
          RouterSearchTarget(target, local, answers)
    \/ RouterSearchReply

RouterSpec == Init /\ [][RouterNext]_vars

\* ------------------------------------------------------------------------
\* Claims about the index
\* ------------------------------------------------------------------------

\* The top layer of a node: the number of its adjacency lists minus one.
TopLayer(id) == Len(nodes[id].layers) - 1

\* C1: after any sequence of inserts of distinct ids, entry_point is set if
\* and only if the node map is non-empty, and max_layers is the top layer of
\* the entry-point node.
C1_EntryPoint ==
    /\ (entry_point # None) <=> (DOMAIN nodes # {})
    /\ entry_point # None =>
           /\ entry_point \in DOMAIN nodes
           /\ TopLayer(entry_point) = max_layers

\* C1 witness: a later insert drew a higher level than the first one and
\* took the entry point over.
C1_Witness ==
    /\ Cardinality(DOMAIN nodes) >= 3
    /\ entry_point \notin {None, 1}
    /\ max_layers > 0

\* C2: the layer-l adjacency list of every node has at most M_max0 = 2 * M
\* ids when l = 0 and at most M ids when l > 0.
C2_DegreeBound ==
    \A n \in DOMAIN nodes : \A l \in 0..TopLayer(n) :
        Len(LayerGet(nodes, n, l)) <= IF l = 0 THEN 2 * M ELSE M

\* A node whose layer-l list lacks a node that chose it as a neighbor on that
\* layer: the list was pruned.
Pruned(l) ==
    \E n \in DOMAIN nodes, x \in DOMAIN nodes :
        /\ l <= TopLayer(n) /\ l <= TopLayer(x)
        /\ \E i \in 1..Len(LayerGet(nodes, x, l)) : LayerGet(nodes, x, l)[i] = n
        /\ \A i \in 1..Len(LayerGet(nodes, n, l)) : LayerGet(nodes, n, l)[i] # x

\* C2 witness: a list of an upper layer was pruned and is full.
C2_Witness ==
    /\ Pruned(1)
    /\ \E n \in DOMAIN nodes : TopLayer(n) >= 1 /\ Len(LayerGet(nodes, n, 1)) = M

\* C3: every id m in a layer-l adjacency list is a node of the index whose
\* top layer is at least l.
C3_Referential ==
    \A n \in DOMAIN nodes : \A l \in 0..TopLayer(n) :
        \A i \in 1..Len(LayerGet(nodes, n, l)) :
            LET m == LayerGet(nodes, n, l)[i]
            IN  m \in DOMAIN nodes /\ TopLayer(m) >= l

\* C3 witness: an edge on layer 1 between nodes of different top layers.
C3_Witness ==
    \E n \in DOMAIN nodes :
        /\ TopLayer(n) >= 1
        /\ Len(LayerGet(nodes, n, 1)) > 0
        /\ \E m \in DOMAIN nodes : TopLayer(m) = 0

\* C4: no adjacency list holds the id of its own node, and a node for which
\* level L was drawn has exactly L + 1 adjacency lists.
C4_NoSelfLoop ==
    /\ DOMAIN drawn = DOMAIN nodes
    /\ \A n \in DOMAIN nodes :
          /\ Len(nodes[n].layers) = drawn[n] + 1
          /\ \A l \in 0..TopLayer(n) :
                \A i \in 1..Len(LayerGet(nodes, n, l)) : LayerGet(nodes, n, l)[i] # n

\* C4 witness: a full index with links on two layers.
C4_Witness ==
    /\ Cardinality(DOMAIN nodes) = MaxNodes
    /\ \E n \in DOMAIN nodes :
          /\ drawn[n] = 1
          /\ Len(LayerGet(nodes, n, 1)) > 0
          /\ Len(LayerGet(nodes, n, 0)) > 1

\* The ids of a search result, in order.
OutIds(out) == [i \in 1..Len(out) |-> out[i][1]]

SeqToSet(s) == {s[i] : i \in 1..Len(s)}

\* C5 (self-recall): a search for the vector of an inserted node with k = 1
\* returns that node alone, at distance 0.
C5_SelfRecall ==
    \A n \in DOMAIN nodes :
        (results # NoSearch /\ results.k = 1 /\ results.query = nodes[n].vector)
            => results.out = << <<n, 0>> >>

\* C6: a search with k greater than the number of nodes returns every node of
\* the index, in ascending order of distance.
C6_AllReturned ==
    (results # NoSearch /\ results.k > Cardinality(DOMAIN nodes)) =>
        /\ SeqToSet(OutIds(results.out)) = DOMAIN nodes
        /\ Len(results.out) = Cardinality(DOMAIN nodes)
        /\ \A i \in 1..(Len(results.out) - 1) : results.out[i][2] <= results.out[i + 1][2]

\* C24: search(q, K) returns at most K pairs (id, distance), in
\* non-decreasing order of distance, no id twice, each id a node of the
\* index paired with its distance to q; on an empty index it returns the
\* empty list.
C24_SearchResultShape ==
    results # NoSearch =>
        LET out == results.out
        IN  /\ Len(out) <= results.k
            /\ \A i \in 1..(Len(out) - 1) : out[i][2] <= out[i + 1][2]
            /\ \A i, j \in 1..Len(out) : i # j => out[i][1] # out[j][1]
            /\ \A i \in 1..Len(out) :
                  /\ out[i][1] \in DOMAIN nodes
                  /\ out[i][2] = dist(results.query, nodes[out[i][1]].vector)
            /\ DOMAIN nodes = {} => out = <<>>

\* C24 witness: a search for the 2 nearest of 4 nodes returned two pairs at
\* different distances.
C24_Witness ==
    /\ results # NoSearch
    /\ results.k = 2
    /\ Cardinality(DOMAIN nodes) = 4
    /\ Len(results.out) = 2
    /\ results.out[1][2] < results.out[2][2]

\* The walk as it starts: at the entry point, with its distance to q.
DescentStart(q) ==
    [ep |-> entry_point, dist |-> dist(q, nodes[entry_point].vector),
     changed |-> FALSE]

\* The walk for q when it leaves layer l, having come down from the top.
StopAt(q, l) == GreedyDescent(nodes, q, l, max_layers, DescentStart(q))

\* The walk for q when it enters layer l.
EnterAt(q, l) == IF l = max_layers THEN DescentStart(q) ELSE StopAt(q, l + 1)

\* C26: the greedy descent of insert and search ends, and on each layer l it
\* walks it stops at a node none of whose layer-l neighbours is strictly
\* closer to the probe; the current distance is the distance of the current
\* node, it never grows, and it is strictly smaller whenever the walk has
\* moved.
C26_GreedyDescent ==
    (entry_point # None /\ ~panicked) =>
        \A q \in Points : \A l \in 1..max_layers :
            LET stop  == StopAt(q, l)
                enter == EnterAt(q, l)
                nbrs  == LayerGet(nodes, stop.ep, l)
            IN  /\ stop.ep \in DOMAIN nodes
                /\ stop.dist = dist(q, nodes[stop.ep].vector)
                /\ \A i \in 1..Len(nbrs) :
                      dist(q, nodes[nbrs[i]].vector) >= stop.dist
                /\ stop.dist <= enter.dist
                /\ stop.ep # enter.ep => stop.dist < enter.dist

\* C26 witness: a search on an index of three layers whose walk moved on
\* layer 2 and moved again on layer 1.
C26_Witness ==
    /\ results # NoSearch
    /\ max_layers = 2
    /\ StopAt(results.query, 2).ep # entry_point
    /\ StopAt(results.query, 1).ep # StopAt(results.query, 2).ep

\* The recovery has run and read_all returned Ok: the index is the one built
\* from the entries.
Replayed == ~server_up /\ read_result.ok

\* C22: an empty index into which the records read_all returns are inserted
\* in order, for a log written by the put handler, satisfies the graph
\* invariants: the entry-point invariant, the degree bounds, referential
\* integrity, and no self-loops; no insert of the replay panics.
C22_ReplayValid ==
    Replayed =>
        /\ ~panicked
        /\ C1_EntryPoint
        /\ C2_DegreeBound
        /\ C3_Referential
        /\ \A n \in DOMAIN nodes : \A l \in 0..TopLayer(n) :
              \A i \in 1..Len(LayerGet(nodes, n, l)) : LayerGet(nodes, n, l)[i] # n

\* The nodes of an index as load_snapshot returns them, the id of each node
\* beside its vector and its lists.
WithIds(ns) ==
    [id \in DOMAIN ns |-> [id |-> id, vector |-> ns[id].vector,
                           layers |-> ns[id].layers]]

\* C23: load_snapshot applied to the file save_snapshot(I) wrote yields the
\* nodes, vectors, adjacency lists, entry point, max_layers and parameters
\* of I, whatever order the nodes were written in; and the index a process
\* loads at its start is I.
C23_SnapshotRoundTrip ==
    snapshot_file.exists =>
        /\ [ok |-> TRUE,
            nodes |-> WithIds(snapshot_file.hnsw.nodes),
            entry_point |-> snapshot_file.hnsw.entry_point,
            max_layers |-> snapshot_file.hnsw.max_layers,
            ef_construction |-> EfConstruction,
            m |-> M,
            m_max0 |-> MMax0,
            level_mult |-> LevelMult] = LoadSnapshot(snapshot_file.bytes)
        /\ server_up => snapshot_file.hnsw = Index

\* C23 witness: a process has loaded the snapshot of an index of four nodes
\* on two layers, written in another order than that of the ids.
C23_Witness ==
    /\ server_up
    /\ snapshot_file.exists
    /\ Cardinality(DOMAIN nodes) = 4
    /\ max_layers = 1
    /\ snapshot_file.hnsw = Index
    /\ Slice(snapshot_file.bytes, 8, 4) = U32LE(3)

\* ------------------------------------------------------------------------
\* Claims about the log
\* ------------------------------------------------------------------------

\* The entries of the history `appended`, in order.
AppendedEntries == [i \in 1..Len(appended) |-> appended[i].entry]

\* C9: when the file ends inside a record, cut at any offset within its
\* header or its payload, read_all returns an error.
C9_TornTailIsError ==
    (torn > 0 /\ read_result # NoRead) => ~read_result.ok

\* C10: after any sequence of successful appends on a log that started empty,
\* Wal values being dropped and opened in between, read_all returns exactly
\* the appended records, each once, in append order.
C10_ReadAllRoundTrip ==
    (torn = 0 /\ read_result # NoRead) =>
        read_result = [ok |-> TRUE, entries |-> AppendedEntries, err |-> "none"]

\* C10 witness: read_all has returned two records appended through two
\* different Wal values.
C10_Witness ==
    /\ read_result.ok
    /\ Len(read_result.entries) = 2
    /\ Len(appended) = 2
    /\ appended[1].session # appended[2].session
    /\ appended[1].entry # appended[2].entry

\* Record i is on disk with its checksum and length as written and its
\* payload altered.
Altered(i) ==
    LET off == appended[i].offset
        fr  == Frame(appended[i].entry)
    IN  /\ Len(wal_file) >= off + Len(fr)
        /\ Slice(wal_file, off, 12) = Slice(fr, 0, 12)
        /\ Slice(wal_file, off + 12, Len(fr) - 12) # Slice(fr, 12, Len(fr) - 12)

\* C11: when the payload of an appended record was altered on disk and its
\* stored checksum left as written, read_all returns the corruption error
\* (InvalidData) and delivers no record: not the altered one, and none after.
C11_CorruptionDetected ==
    (read_result # NoRead /\ \E i \in 1..Len(appended) : Altered(i)) =>
        read_result = [ok |-> FALSE, entries |-> <<>>, err |-> "InvalidData"]

\* C11 witness: read_all has run on a log of two records, the first of them
\* altered.
C11_Witness ==
    /\ read_result # NoRead
    /\ Len(appended) = 2
    /\ Altered(1)
    /\ ~Altered(2)

\* ------------------------------------------------------------------------
\* Claims about the backend
\* ------------------------------------------------------------------------

\* The record at offset `off` of the file is `entry`, and the checksum stored
\* with it is that of its payload.
RecordAt(f, off, entry) ==
    /\ Len(f) >= off + 12
    /\ LET len == LenFrom(Slice(f, off + 4, 8))
       IN  /\ len # TooLong
           /\ Len(f) >= off + 12 + len
           /\ Crc32(Slice(f, off + 12, len)) = Slice(f, off, 4)
           /\ Deserialize(Slice(f, off + 12, len)) = [ok |-> TRUE, entry |-> entry]

\* C7: for every put that replied success, the log holds an Insert record of
\* its id and vector whose stored checksum is that of its payload, and the
\* whole record was in the file when the put modified the index.
C7_AckedIsLogged ==
    \A a \in acked : \E i \in 1..Len(appended) :
        /\ appended[i].entry = EntryOf(a)
        /\ RecordAt(wal_file, appended[i].offset, EntryOf(a))
        /\ \E j \in 1..Len(applied) :
              /\ applied[j].id = a.id
              /\ applied[j].wal_len >= appended[i].offset + Len(Frame(EntryOf(a)))
        /\ \A j \in 1..Len(applied) :
              applied[j].id = a.id =>
                  applied[j].wal_len >= appended[i].offset + Len(Frame(EntryOf(a)))

\* C7 witness: two puts replied success, their records written behind the
\* bytes of a record that a crash cut short.
C7_Witness ==
    /\ Cardinality(acked) = 2
    /\ torn > 0
    /\ \A i \in 1..Len(appended) : appended[i].offset > 0

\* C8: once the backend is up again after a crash, every put that replied
\* success is in the index it serves.
C8_AckedSurvivesRestart ==
    server_up =>
        \A a \in acked : a.id \in DOMAIN nodes /\ nodes[a.id].vector = a.vector

\* Handler t returns the error of a failed append in this step.
WalFailed(t) ==
    /\ pc[t] = "wal"
    /\ server_up'
    /\ pc'[t] = "idle"
    /\ replies'[t] = "internal"

\* C18: a backend Put whose WAL append fails returns an internal error and
\* leaves the index as it was, without the id of the put; and the index is
\* modified for an id only when a whole record of that id is in the log.
C18_WalBeforeIndex ==
    /\ [][\A t \in Threads :
            (pc[t] = "wal" /\ pc'[t] # "wal" /\ server_up'
                /\ appended' = appended) =>
                /\ WalFailed(t)
                /\ UNCHANGED <<nodes, entry_point, max_layers>>
                /\ req[t].id \notin DOMAIN nodes']_vars
    /\ [](\A j \in 1..Len(applied) : \E i \in 1..Len(appended) :
            /\ appended[i].entry.vector_id = applied[j].id
            /\ applied[j].wal_len >=
                  appended[i].offset + Len(Frame(appended[i].entry)))

\* C18 witness: one put was refused with an internal error while another
\* was applied and acknowledged, and the index holds the acknowledged id
\* only.
C18_Witness ==
    /\ \E t \in Threads : replies[t] = "internal"
    /\ Cardinality(acked) = 1
    /\ DOMAIN nodes = {a.id : a \in acked}

\* C19: a backend Put or Search with an empty vector is answered
\* InvalidArgument and changes nothing: no request with an empty vector gets
\* past the validation, into the log or into the index, and the step that
\* answers InvalidArgument leaves the index, the log, the snapshot and the
\* handlers as they were.
C19_EmptyVectorRejected ==
    /\ [](/\ \A t \in Threads :
               /\ pc[t] \in {"wal", "index", "locked", "linking", "reply"}
                     => req[t].vector # <<>>
               /\ srch[t].state # "none" => srch[t].query # <<>>
          /\ \A i \in 1..Len(appended) : appended[i].entry.vector # <<>>
          /\ \A id \in DOMAIN nodes : nodes[id].vector # <<>>)
    /\ [][\A t \in Threads :
            (replies'[t] = "invalid_argument" /\ replies[t] # "invalid_argument") =>
                UNCHANGED <<idxVars, walVars, concVars, server_up, pc, req,
                            snapshot_file, acked, applied>>]_vars

\* C19 witness: both handlers have answered InvalidArgument, the index and
\* the log holding one vector.
C19_Witness ==
    /\ \A t \in Threads : replies[t] = "invalid_argument"
    /\ Cardinality(DOMAIN nodes) = 1
    /\ Len(appended) = 1

\* C20: what a backend Search or Snapshot reads while puts are under way is
\* a graph the index held before an insert or after it, never one in which
\* the new node is not yet linked.
C20_ReadersSeeWholeGraph ==
    /\ \A t \in Threads : srch[t].state = "done" => srch[t].graph \in versions
    /\ snapshot_file.exists => snapshot_file.hnsw \in versions

\* C20 witness: a search was answered from the graph of one node while the
\* put of a second vector stood between its log record and the index.
C20_Witness ==
    \E t, u \in Threads :
        /\ srch[t].state = "done"
        /\ replies[t] = "ok"
        /\ pc[u] = "index"
        /\ Cardinality(DOMAIN srch[t].graph.nodes) = 1
        /\ srch[t].graph = Index

\* Handler t has a step to take: it is not waiting for a lock another
\* handler holds.
CanStep(t) ==
    \/ pc[t] = "wal" /\ wal_lock = 0
    \/ pc[t] = "index" /\ CanWrite(index_lock)
    \/ pc[t] \in {"wal_held", "locked", "linking", "reply"}

\* C21: no put handler holds the Mutex of the log while it asks for, waits
\* for or holds the write lock of the index: the holder of the Mutex is
\* inside the block that writes the log; and the handlers under way are
\* never all waiting for a lock.
C21_LocksNotNested ==
    /\ \A t \in Threads : wal_lock = t => pc[t] = "wal_held"
    /\ \A t \in Threads : index_lock.writer = t => wal_lock # t
    /\ (\E t \in Threads : pc[t] # "idle") =>
          \E t \in Threads : pc[t] # "idle" /\ CanStep(t)

\* C21 witness: one handler holds the Mutex of the log while the other
\* holds the write lock of the index, and a record is already in the log.
C21_Witness ==
    \E t, u \in Threads :
        /\ wal_lock = t
        /\ index_lock.writer = u
        /\ pc[u] = "linking"
        /\ Len(appended) = 1

\* The record at place i1 of the log precedes the one at i2, and the put of
\* the later record was applied to the index, at place j1, before the put
\* of the earlier one, at place j2.
Inverted(i1, i2, j1, j2) ==
    /\ i1 < i2
    /\ j1 < j2
    /\ applied[j1].id = appended[i2].entry.vector_id
    /\ applied[j2].id = appended[i1].entry.vector_id

\* C27: the order of the log and the order of the index may differ for two
\* concurrent puts A and B, A logged first and B applied first; whenever
\* they do, both records were whole in the log when B was applied, so the
\* two puts stood between their log write and their index update together.
C27_OrdersMayDiffer ==
    \A i1, i2 \in 1..Len(appended) : \A j1, j2 \in 1..Len(applied) :
        Inverted(i1, i2, j1, j2) =>
            /\ appended[i1].offset + Len(Frame(appended[i1].entry))
                  <= appended[i2].offset
            /\ applied[j1].wal_len >=
                  appended[i2].offset + Len(Frame(appended[i2].entry))

\* C27 witness: the record of put 1 precedes the record of put 2 in the log,
\* and put 2 was inserted into the index before put 1.
C27_Witness ==
    /\ Len(appended) = 2 /\ Len(applied) = 2
    /\ appended[1].entry.vector_id = 1 /\ appended[2].entry.vector_id = 2
    /\ applied[1].id = 2 /\ applied[2].id = 1
    /\ DOMAIN nodes = {1, 2}

\* ------------------------------------------------------------------------
\* Claims about the router
\* ------------------------------------------------------------------------

\* The handler has returned from a Put.
PutDone == router.pc = "done" /\ router.op = "put"

\* The handler has returned from a Search.
SearchDone == router.pc = "done" /\ router.op = "search"

\* C12: a Router Put contacts the targets of preference_list(id, R) in that
\* order and succeeds iff the acknowledgements number at least W; with R = 2
\* and W = 1 it succeeds when exactly one of its two targets is unreachable
\* and the other acknowledges, and fails when both are unreachable.
C12_PutQuorum ==
    /\ router.pc = "put" =>
          router.contacted = SubSeq(router.targets, 1, router.i - 1)
    /\ PutDone =>
          /\ router.contacted =
                get_preference_list(ring, router.id, replication_factor)
          /\ router_reply.kind = "ok" <=> router.successes >= write_quorum
          /\ (replication_factor = 2 /\ write_quorum = 1
                /\ Len(router.contacted) = 2) =>
                /\ (router.errors = <<"connect">> /\ router.successes = 1)
                      => router_reply.kind = "ok"
                /\ router.errors = <<"connect", "connect">>
                      => router_reply.kind # "ok"

\* C12 witness: R = 2, W = 1, two targets were tried, one was unreachable,
\* the other acknowledged, and the Put succeeded.
C12_Witness ==
    /\ PutDone
    /\ replication_factor = 2 /\ write_quorum = 1
    /\ Len(router.contacted) = 2
    /\ router.errors = <<"connect">>
    /\ router.successes = 1
    /\ router_reply.kind = "ok"

\* C13: a Router Put that fails to reach its write quorum returns an error
\* of kind Unavailable.
C13_QuorumFailureUnavailable ==
    (PutDone /\ router.successes < write_quorum) =>
        router_reply.kind = "unavailable"

\* C14: when the ring has no nodes, Router Put and Router Search return an
\* error of kind Unavailable and contact no backend.
C14_EmptyRingUnavailable ==
    (ring = <<>> /\ (PutDone \/ SearchDone)) =>
        /\ router_reply.kind = "unavailable"
        /\ router.contacted = <<>>

\* C14 witness: a Put was answered over an empty ring while every backend
\* was running.
C14_Witness ==
    /\ ring = <<>>
    /\ PutDone
    /\ up = Addrs
    /\ router_reply.kind = "unavailable"

\* The reference merge: again and again the nearest result whose id is not
\* yet taken, the earliest of equals, until k are taken.
RECURSIVE RefMerge(_, _, _)
RefMerge(all, k, out) ==
    LET cand == {i \in 1..Len(all) :
                   \A j \in 1..Len(out) : out[j].id # all[i].id}
    IN  IF Len(out) >= k \/ cand = {} THEN out
        ELSE LET best == CHOOSE i \in cand : \A j \in cand :
                            \/ all[i].distance < all[j].distance
                            \/ all[i].distance = all[j].distance /\ i <= j
             IN  RefMerge(all, k, Append(out, all[best]))

\* C15: the result of a Router Search is the reference merge of the tuples
\* its backends returned: ascending by distance, the first occurrence of an
\* id kept, truncated to K.
C15_MergeIsReference ==
    SearchDone /\ router_reply.kind = "ok" =>
        router_reply.results = RefMerge(router.all_results, router.k, <<>>)

\* C15 witness: two backends returned [(7, 0.1), (9, 0.3)] and
\* [(7, 0.1), (4, 0.2)], and the merged top 3 is [(7, 0.1), (4, 0.2), (9, 0.3)].
C15_Witness ==
    /\ SearchDone
    /\ router.k = 3
    /\ router.all_results = <<Result(7, 100), Result(9, 300),
                              Result(7, 100), Result(4, 200)>>
    /\ router_reply.results = <<Result(7, 100), Result(4, 200), Result(9, 300)>>

\* C16: the merge is idempotent: a merged result merged with itself is that
\* result.
C16_MergeIdempotent ==
    SearchDone /\ router_reply.kind = "ok" =>
        Merge(router_reply.results \o router_reply.results, router.k)
            = router_reply.results

\* C16 witness: a merged result of two tuples, made from results that held
\* an id twice.
C16_Witness ==
    /\ SearchDone
    /\ Len(router_reply.results) = 2
    /\ Len(router.all_results) = 4
    /\ Merge(router_reply.results \o router_reply.results, router.k)
           = router_reply.results

\* The number of ring entries before the first one of hash at least
\* hash(key).
Before(key) == Cardinality({j \in 1..Len(ring) : ring[j].hash < HashKey(key)})

\* C17: get_preference_list(key, N) returns min(N, number of ring nodes)
\* addresses, distinct, in ring order from the first entry of hash at least
\* hash(key), wrapping to the smallest hash.
C17_PreferenceList ==
    (router.pc = "done" /\ router.op = "pref") =>
        LET out == router.targets
            n   == router.k
        IN  /\ Len(out) = IF n < Len(ring) THEN n ELSE Len(ring)
            /\ \A i, j \in 1..Len(out) : i # j => out[i] # out[j]
            /\ \A j \in 1..Len(out) :
                  out[j] = ring[((Before(router.id) + j - 1) % Len(ring)) + 1].addr

\* C17 witness: a ring of three nodes, a key that hashes behind two of them,
\* N above the number of nodes: the list starts at the third node and wraps.
C17_Witness ==
    /\ router.pc = "done" /\ router.op = "pref"
    /\ Len(ring) = 3
    /\ router.id = 3
    /\ router.k = 4
    /\ router.targets = <<"n3", "n2", "n1">>


\* The concatenation of a sequence of sequences.
RECURSIVE Flatten(_)
Flatten(seqs) ==
    IF seqs = <<>> THEN <<>> ELSE Head(seqs) \o Flatten(Tail(seqs))

\* C25: over a ring that is not empty, a Router Search forwards to every
\* distinct node of the ring, once each, and returns success whichever
\* backends fail to connect or answer with an error, all of them included;
\* its result is the merge of the tuples of the backends that answered.
C25_SearchBestEffort ==
    (SearchDone /\ ring # <<>>) =>
        /\ router_reply.kind = "ok"
        /\ AddrSet(router.contacted) = AddrSet(get_all_nodes(ring))
        /\ Len(router.contacted) = Len(ring)
        /\ router.all_results = Flatten(router.heard)
        /\ router_reply.results = Merge(Flatten(router.heard), router.k)

\* C25 witness: three nodes on the ring, two of them failed, the third
\* answered two tuples, and the search succeeded with these two.
C25_Witness ==
    /\ SearchDone
    /\ Len(router.contacted) = 3
    /\ Len(router.heard) = 1
    /\ Len(router_reply.results) = 2
    /\ router_reply.kind = "ok"
====
